---------------------------- MODULE Spec2Model ----------------------------
(***************************************************************************)
(* Model of libyang's src/tree_schema.c: the if-feature expression         *)
(* compiler and evaluator, the feature enable/disable runtime, the         *)
(* range/length, enumeration/bits and type compilers, the data node        *)
(* compiler, and the module pipeline (lys_parse_mem_, lys_compile).        *)
(*                                                                         *)
(* C strings are sequences of one-character strings; c[i] of the source is *)
(* Ch(c, i) (0-based), with NUL standing for the terminating '\0'.         *)
(***************************************************************************)
EXTENDS Integers, Sequences, FiniteSets, TLC

VARIABLES
    \* ---- feature runtime (lys_feature_enable / lys_feature_disable) ----
    parsed,      \* the parsed modules (lysp_module): features and their if-feature strings
    feats,       \* the compiled features (lysc_feature) of all modules, by global index
    enabled,     \* enabled[f]: the LYS_FENABLED bit of feature f
    call,        \* the last API call: [op, mod, name]
    ret,         \* its return code
    stat,        \* what the call did: [passes, changed, run] (runs of the loop, the changed
                 \* set, its size when the propagation to the dependent features began)
    \* ---- if-feature compilation (lys_compile_iffeature) ----
    src,         \* the if-feature source: its grammar tree
    iffpc,       \* "start" | "compiled" | "evaluated"
    iff,         \* the outcome of lys_compile_iffeature: [rc, expr, features]
    assign,      \* the set of feature names that are enabled when evaluating
    val,         \* the value lysc_iffeature_value returned
    \* ---- range compilation (lys_compile_type_range) ----
    rtype,       \* the base type of the restricted type
    rbase,       \* the range expression of the typedef (<<>>: none)
    rexpr,       \* the range expression of the type derived from it
    rpc,         \* "start" | "base" | "done"
    rbres,       \* the outcome of compiling rbase
    rres,        \* the outcome of compiling rexpr
    \* ---- type compilation (lys_compile_type) ----
    tpdfs,       \* the typedefs of the module (lysp_tpdf), with their type.compiled pointers
    theap,       \* the compiled types (lysc_type) allocated so far, by address
    tleaves,     \* the leaves compiled so far: [leaf, ret, type]
    \* ---- enumeration / bits compilation (lys_compile_type_enums) ----
    enin,        \* the input: [basetype, base, derived], the items of a type and of one derived from it
    epc,         \* "start" | "base" | "done"
    ebres,       \* the outcome of compiling enin.base
    eres,        \* the outcome of compiling enin.derived
    \* ---- data node compilation (lys_compile_node) ----
    ntree,       \* the parsed data tree (lysp_node)
    npc,         \* "start" | "done"
    nres,        \* the outcome of compiling it: [ret, nodes]
    \* ---- module parsing and compilation (lys_parse_mem_, lys_compile) ----
    mctx,        \* the modules of the context (ctx->list), in order
    mheap,       \* what the compiler allocated so far: [mods, feats, idents, types], by address
    mcall,       \* the last call: [op, mod, options, before, alloc, sp]
    mret         \* its return code; for a parse the error that was logged

vars == <<parsed, feats, enabled, call, ret, stat, src, iffpc, iff, assign, val,
          rtype, rbase, rexpr, rpc, rbres, rres,
          tpdfs, theap, tleaves, enin, epc, ebres, eres, ntree, npc, nres,
          mctx, mheap, mcall, mret>>

featvars == <<parsed, feats, enabled, call, ret, stat>>
iffvars == <<src, iffpc, iff, assign, val>>
rangevars == <<rtype, rbase, rexpr, rpc, rbres, rres>>
typevars == <<tpdfs, theap, tleaves>>
enumvars == <<enin, epc, ebres, eres>>
nodevars == <<ntree, npc, nres>>
modvars == <<mctx, mheap, mcall, mret>>
schemavars == <<typevars, enumvars, nodevars, modvars>>

---------------------------------------------------------------------------
(* Strings                                                                 *)

NUL == "NUL"

Ch(c, i) == IF i >= 0 /\ i < Len(c) THEN c[i + 1] ELSE NUL

isspace(ch) == ch \in {" ", "\t", "\n"}

isdigit(ch) == ch \in {"0", "1", "2", "3", "4", "5", "6", "7", "8", "9"}

\* !strncmp(&c[i], kw, Len(kw))
StartsWith(c, i, kw) == \A k \in 1..Len(kw) : Ch(c, i + k - 1) = kw[k]

\* the characters c[i] .. c[j-1]
Sub(c, i, j) == [k \in 1..(j - i) |-> c[i + k]]

\* F applied to the value of x, with x evaluated once (TLC evaluates a plain
\* LET or an operator argument anew at each use when it collects coverage)
Bind(x, F(_)) == CHOOSE r \in {F(v) : v \in {x}} : TRUE

RECURSIVE Flatten(_)
Flatten(ss) == IF ss = <<>> THEN <<>> ELSE Head(ss) \o Flatten(Tail(ss))

\* the spelling of the words used to write the inputs of the model
Spell(w) ==
    CASE w = "not" -> <<"n", "o", "t">>
      [] w = "and" -> <<"a", "n", "d">>
      [] w = "or"  -> <<"o", "r">>
      [] w = "min" -> <<"m", "i", "n">>
      [] w = "max" -> <<"m", "a", "x">>
      [] w = ".."  -> <<".", ".">>
      [] w = "p:a" -> <<"p", ":", "a">>
      [] w = "p:f" -> <<"p", ":", "f">>
      [] OTHER     -> <<w>>

Str(words) == Flatten([k \in 1..Len(words) |-> Spell(words[k])])

---------------------------------------------------------------------------
(* if-feature opcodes                                                      *)

LYS_IFF_NOT == 0
LYS_IFF_AND == 1
LYS_IFF_OR == 2
LYS_IFF_F == 3
LYS_IFF_LP == 4
LYS_IFF_RP == 8

---------------------------------------------------------------------------
(* Compiled-module context                                                 *)
(* A module record is [name, prefix, version, imports, features], imports  *)
(* a sequence of [prefix, module] (module: index into the module table),   *)
(* features a sequence of [name, iffeatures] (the parsed if-feature        *)
(* strings).  A compiled feature is                                        *)
(*   [mod, name, iffeatures : Seq([expr, features]), depfeatures : Seq(f)] *)
(* and a compile context is [mod, mods, feats]: the module being compiled, *)
(* the module table and the compiled features that exist so far.           *)

LYS_VERSION_1_0 == 1
LYS_VERSION_1_1 == 2

\* lysc_module_find_prefix(): the module itself for its own prefix, else the
\* imported module with that import prefix, else 0 (NULL)
lysc_module_find_prefix(mods, m, prefix) ==
    IF mods[m].prefix = prefix THEN m
    ELSE LET hit == {u \in 1..Len(mods[m].imports) : mods[m].imports[u].prefix = prefix}
         IN  IF hit = {} THEN 0
             ELSE mods[m].imports[CHOOSE u \in hit : \A w \in hit : u <= w].module

RECURSIVE feature_find_loop(_, _, _, _)
\* the for loop of lysc_feature_find: s = [mod, name, i]
feature_find_loop(mods, mod, name, i) ==
    IF mod = 0 \/ i >= Len(name) THEN [mod |-> mod, name |-> name]
    ELSE IF Ch(name, i) = ":"
         THEN feature_find_loop(mods, lysc_module_find_prefix(mods, mod, Sub(name, 0, i)),
                                Sub(name, i + 1, Len(name)), i + 1)
         ELSE feature_find_loop(mods, mod, name, i + 1)

\* lysc_feature_find(): the first feature of the resolved module with that name, 0 if none
lysc_feature_find(ctx, name) ==
    LET r == feature_find_loop(ctx.mods, ctx.mod, name, 0)
        hit == {f \in 1..Len(ctx.feats) : ctx.feats[f].mod = r.mod /\ ctx.feats[f].name = r.name}
    IN  IF r.mod = 0 \/ hit = {} THEN 0
        ELSE CHOOSE f \in hit : \A g \in hit : f <= g

---------------------------------------------------------------------------
(* lys_compile_iffeature: pass 1, the pre-scan                             *)
(* expr_size is an unsigned int that the double-not branch can take below  *)
(* zero for a moment; it is kept here as the integer it is congruent to    *)
(* (modulo 2^32), which is also its value when converted to int.           *)

\* the while loop that skips to the end of a word
RECURSIVE SkipWord(_, _)
SkipWord(c, i) ==
    IF isspace(Ch(c, i)) THEN i
    ELSE IF Ch(c, i) = NUL \/ Ch(c, i) = ")" THEN i - 1
    ELSE SkipWord(c, i + 1)

\* r of the keyword test: 3 for not/and, 2 for or, 0 when no keyword starts at c[i]
KeywordLen(c, i) ==
    IF StartsWith(c, i, Spell("not")) \/ StartsWith(c, i, Spell("and")) THEN 3
    ELSE IF StartsWith(c, i, Spell("or")) THEN 2
    ELSE 0

PreScanWord(c, st) ==
    LET r == KeywordLen(c, st.i)
        afterkw ==
            IF r = 0 THEN [st EXCEPT !.f_size = @ + 1, !.last_not = 0]
            ELSE IF Ch(c, st.i + r) = NUL THEN [st EXCEPT !.rc = "LY_EVALID"]
            ELSE IF ~isspace(Ch(c, st.i + r))
                 THEN [st EXCEPT !.last_not = 0, !.f_size = @ + 1, !.i = @ + r]
            ELSE IF Ch(c, st.i) = "n"
                 THEN IF st.last_not = 1
                      THEN [st EXCEPT !.expr_size = @ - 2, !.last_not = 0, !.i = @ + r]
                      ELSE [st EXCEPT !.last_not = 1, !.i = @ + r]
            ELSE [st EXCEPT !.f_exp = @ + 1, !.last_not = 0, !.i = @ + r]
    IN  IF afterkw.rc # "run" THEN afterkw
        ELSE [afterkw EXCEPT !.expr_size = @ + 1, !.i = SkipWord(c, afterkw.i) + 1]

PreScanStep(c, st) ==
    IF Ch(c, st.i) = "(" THEN [st EXCEPT !.j = @ + 1, !.checkversion = 1, !.i = @ + 1]
    ELSE IF Ch(c, st.i) = ")" THEN [st EXCEPT !.j = @ - 1, !.i = @ + 1]
    ELSE IF isspace(Ch(c, st.i)) THEN [st EXCEPT !.checkversion = 1, !.i = @ + 1]
    ELSE PreScanWord(c, st)

RECURSIVE PreScanLoop(_, _)
PreScanLoop(c, st) ==
    IF st.rc # "run" \/ Ch(c, st.i) = NUL THEN st
    ELSE Bind(PreScanStep(c, st), LAMBDA n : PreScanLoop(c, n))

\* the whole first pass, with the two checks that follow it
PreScanChecks(ctx, st) ==
    LET \* expr_size > 1 on an unsigned int
        big == st.expr_size > 1 \/ st.expr_size < 0
    IN  IF st.rc # "run" THEN st
        ELSE IF st.j # 0 \/ st.f_exp # st.f_size THEN [st EXCEPT !.rc = "LY_EVALID"]
        ELSE IF (st.checkversion = 1 \/ big) /\ ctx.mods[ctx.mod].version # LYS_VERSION_1_1
             THEN [st EXCEPT !.rc = "LY_EVALID"]
        ELSE [st EXCEPT !.rc = "ok"]

PreScan(ctx, c) ==
    Bind(PreScanLoop(c, [i |-> 0, j |-> 0, last_not |-> 0, checkversion |-> 0,
                         f_size |-> 0, expr_size |-> 0, f_exp |-> 1, rc |-> "run"]),
         LAMBDA st : PreScanChecks(ctx, st))

---------------------------------------------------------------------------
(* lys_compile_iffeature: pass 2, the right-to-left shunting-yard          *)
(* expr is the byte array iff->expr (four 2-bit opcodes per byte), stack   *)
(* the operator stack (top last), features the array iff->features (0 is   *)
(* an unset slot).  rc "UB" marks undefined behaviour: a failed assert of  *)
(* iff_setop, a pop of the empty stack, a write outside an array.          *)

Pow4(k) == CASE k = 0 -> 1 [] k = 1 -> 4 [] k = 2 -> 16 [] k = 3 -> 64

\* iff_setop(): store the 2-bit op at position pos >= 0
iff_setop(list, op, pos) ==
    LET item == list[(pos \div 4) + 1]
        sh == Pow4(pos % 4)
        old == (item \div sh) % 4
    IN  [list EXCEPT ![(pos \div 4) + 1] = item - old * sh + op * sh]

\* iff_getop(): the 2-bit op at position pos
iff_getop(list, pos) == (list[(pos \div 4) + 1] \div Pow4(pos % 4)) % 4

iff_stack_push(stack, value) == Append(stack, value)

\* iff_setop(iff->expr, op, expr_size--)
Emit(st, op) ==
    IF st.expr_size < 0 \/ (st.expr_size \div 4) >= Len(st.expr)
    THEN [st EXCEPT !.rc = "UB"]
    ELSE [st EXCEPT !.expr = iff_setop(@, op, st.expr_size), !.expr_size = @ - 1]

RECURSIVE PopUntilRP(_)
\* while ((op = iff_stack_pop(&stack)) != LYS_IFF_RP) iff_setop(...)
PopUntilRP(st) ==
    IF st.rc # "run" THEN st
    ELSE IF st.stack = <<>> THEN [st EXCEPT !.rc = "UB"]
    ELSE LET op == st.stack[Len(st.stack)]
             popped == [st EXCEPT !.stack = SubSeq(@, 1, Len(@) - 1)]
         IN  IF op = LYS_IFF_RP THEN popped
             ELSE Bind(Emit(popped, op), LAMBDA n : PopUntilRP(n))

RECURSIVE PopWhileLE(_, _)
\* while (stack.index && stack.stack[stack.index - 1] <= prio) pop and emit
PopWhileLE(st, prio) ==
    IF st.rc # "run" \/ st.stack = <<>> THEN st
    ELSE IF st.stack[Len(st.stack)] <= prio
         THEN Bind(Emit([st EXCEPT !.stack = SubSeq(@, 1, Len(@) - 1)], st.stack[Len(st.stack)]),
                   LAMBDA n : PopWhileLE(n, prio))
         ELSE st

RECURSIVE PopAll(_)
\* while (stack.index) pop and emit
PopAll(st) ==
    IF st.rc # "run" \/ st.stack = <<>> THEN st
    ELSE Bind(Emit([st EXCEPT !.stack = SubSeq(@, 1, Len(@) - 1)], st.stack[Len(st.stack)]),
              LAMBDA n : PopAll(n))

RECURSIVE WordStart(_, _)
\* while (i >= 0 && !isspace(c[i]) && c[i] != '(') i--;  i++;
WordStart(c, i) ==
    IF i >= 0 /\ ~isspace(Ch(c, i)) /\ Ch(c, i) # "(" THEN WordStart(c, i - 1) ELSE i + 1

\* an and/or operator of priority prio: pop what binds as tight or tighter, push it
CompileOperator(st, prio) ==
    Bind(PopWhileLE(st, prio),
         LAMBDA p : IF p.rc # "run" THEN p ELSE [p EXCEPT !.stack = iff_stack_push(@, prio)])

\* a feature name: emit LYS_IFF_F and store the feature it resolves to
CompileName(ctx, st, name) ==
    Bind(<<Emit(st, LYS_IFF_F), lysc_feature_find(ctx, name)>>,
         LAMBDA ef : LET e == ef[1]
                         f == ef[2]
                     IN  IF e.rc # "run" THEN e
                         ELSE IF f = 0 THEN [e EXCEPT !.rc = "LY_EVALID"]
                         ELSE IF e.f_size < 0 \/ e.f_size >= Len(e.features)
                              THEN [e EXCEPT !.rc = "UB"]
                         ELSE [e EXCEPT !.features[e.f_size + 1] = f, !.f_size = @ - 1])

\* the word that ends at c[st.i] and starts at c[i]
CompileWordAt(ctx, c, st, i) ==
    LET done ==
            IF StartsWith(c, i, Spell("not")) /\ isspace(Ch(c, i + 3))
            THEN IF st.stack # <<>> /\ st.stack[Len(st.stack)] = LYS_IFF_NOT
                 THEN [st EXCEPT !.stack = SubSeq(@, 1, Len(@) - 1)]
                 ELSE [st EXCEPT !.stack = iff_stack_push(@, LYS_IFF_NOT)]
            ELSE IF StartsWith(c, i, Spell("and")) /\ isspace(Ch(c, i + 3))
            THEN CompileOperator(st, LYS_IFF_AND)
            ELSE IF StartsWith(c, i, Spell("or")) /\ isspace(Ch(c, i + 2))
            THEN CompileOperator(st, LYS_IFF_OR)
            ELSE CompileName(ctx, st, Sub(c, i, st.i + 1))
    IN  [done EXCEPT !.i = i - 1]

CompileWord(ctx, c, st) ==
    Bind(WordStart(c, st.i), LAMBDA i : CompileWordAt(ctx, c, st, i))

CompileStep(ctx, c, st) ==
    IF Ch(c, st.i) = ")"
    THEN [st EXCEPT !.stack = iff_stack_push(@, LYS_IFF_RP), !.i = @ - 1]
    ELSE IF Ch(c, st.i) = "("
    THEN [PopUntilRP(st) EXCEPT !.i = @ - 1]
    ELSE IF isspace(Ch(c, st.i)) THEN [st EXCEPT !.i = @ - 1]
    ELSE CompileWord(ctx, c, st)

RECURSIVE CompileLoop(_, _, _)
CompileLoop(ctx, c, st) ==
    IF st.rc # "run" \/ st.i < 0 THEN st
    ELSE Bind(CompileStep(ctx, c, st), LAMBDA n : CompileLoop(ctx, c, n))

\* the second pass and the final check, after a pre-scan pre that passed
CompilePass(ctx, c, pre) ==
    LET bytes == (pre.expr_size \div 4) + (IF pre.expr_size % 4 # 0 THEN 1 ELSE 0)
        st0 == [i |-> pre.i - 1, stack |-> <<>>,
                expr |-> [k \in 1..bytes |-> 0],
                features |-> [k \in 1..pre.f_size |-> 0],
                f_size |-> pre.f_size - 1, expr_size |-> pre.expr_size - 1, rc |-> "run"]
    IN  Bind(CompileLoop(ctx, c, st0),
             LAMBDA l : Bind(PopAll(l),
                 LAMBDA st :
                     IF st.rc # "run" THEN [rc |-> st.rc, expr |-> st.expr, features |-> st.features]
                     ELSE IF st.expr_size + 1 # 0 \/ st.f_size + 1 # 0
                          THEN [rc |-> "LY_EINT", expr |-> st.expr, features |-> st.features]
                     ELSE [rc |-> "LY_SUCCESS", expr |-> st.expr, features |-> st.features]))

\* lys_compile_iffeature(): [rc, expr, features]; rc is LY_SUCCESS, LY_EVALID,
\* LY_EINT, or "UB" where the C code has undefined behaviour
lys_compile_iffeature(ctx, c) ==
    Bind(PreScan(ctx, c),
         LAMBDA pre :
             IF pre.rc # "ok" THEN [rc |-> pre.rc, expr |-> <<>>, features |-> <<>>]
             ELSE IF pre.expr_size < 1 THEN [rc |-> "UB", expr |-> <<>>, features |-> <<>>]
             ELSE CompilePass(ctx, c, pre))

---------------------------------------------------------------------------
(* lysc_iffeature_value: evaluation of the compiled expression             *)

\* lysc_feature_value(): the LYS_FENABLED bit
lysc_feature_value(en, f) == IF en[f] THEN 1 ELSE 0

RECURSIVE lysc_iffeature_value_(_, _, _, _)
\* returns [v, e, f]: the value and the advanced indices index_e, index_f
lysc_iffeature_value_(en, ie, index_e, index_f) ==
    LET op == iff_getop(ie.expr, index_e)
    IN  IF op = LYS_IFF_F
        THEN [v |-> lysc_feature_value(en, ie.features[index_f + 1]), e |-> index_e + 1, f |-> index_f + 1]
        ELSE IF op = LYS_IFF_NOT
        THEN Bind(lysc_iffeature_value_(en, ie, index_e + 1, index_f),
                  LAMBDA a : [a EXCEPT !.v = IF a.v # 0 THEN 0 ELSE 1])
        ELSE Bind(lysc_iffeature_value_(en, ie, index_e + 1, index_f),
                  LAMBDA a : Bind(lysc_iffeature_value_(en, ie, a.e, a.f),
                      LAMBDA b : [b EXCEPT !.v = IF op = LYS_IFF_AND
                                                  THEN (IF a.v # 0 /\ b.v # 0 THEN 1 ELSE 0)
                                                  ELSE (IF a.v # 0 \/ b.v # 0 THEN 1 ELSE 0)]))

lysc_iffeature_value(en, ie) ==
    IF ie.expr # <<>> THEN lysc_iffeature_value_(en, ie, 0, 0).v ELSE 0

---------------------------------------------------------------------------
(* Well-formed if-feature sources (RFC 7950 if-feature-expr):              *)
(*   expr = term ["or" expr], term = factor ["and" term],                  *)
(*   factor = "not" factor / "(" expr ")" / name                           *)
(* as grammar trees, written out by Render and read by RefValue.           *)

MaxTokens == 6

IffNames == {"a", "b", "c"}

Leaf(n) == [k |-> "f", n |-> n]
Un(k, x) == [k |-> k, x |-> x]
Bin(k, x, y) == [k |-> k, x |-> x, y |-> y]

\* Gram[n]: the factors, terms and expressions written with exactly n tokens
Gram[n \in 0..(MaxTokens + 2)] ==
    IF n = 0 THEN [fac |-> {}, term |-> {}, expr |-> {}]
    ELSE LET fac == (IF n = 1 THEN {Leaf(x) : x \in IffNames} ELSE {})
                    \cup {Un("not", x) : x \in Gram[n - 1].fac}
                    \cup (IF n >= 3 THEN {Un("par", x) : x \in Gram[n - 2].expr} ELSE {})
             term == fac \cup UNION {{Bin("and", x, y) : x \in Gram[m].fac, y \in Gram[n - 1 - m].term}
                                     : m \in 1..(n - 2)}
             expr == term \cup UNION {{Bin("or", x, y) : x \in Gram[m].term, y \in Gram[n - 1 - m].expr}
                                      : m \in 1..(n - 2)}
         IN  [fac |-> fac, term |-> term, expr |-> expr]

\* scenario 3 of the specification: "(a and not b) or c"
ScenarioTree ==
    Bin("or", Un("par", Bin("and", Leaf("a"), Un("not", Leaf("b")))), Leaf("c"))

WellFormed == UNION {Gram[n].expr : n \in 1..MaxTokens} \cup {ScenarioTree}

RECURSIVE Render(_)
Render(t) ==
    CASE t.k = "f"   -> <<t.n>>
      [] t.k = "not" -> <<"not", " ">> \o Render(t.x)
      [] t.k = "par" -> <<"(">> \o Render(t.x) \o <<")">>
      [] OTHER       -> Render(t.x) \o <<" ", t.k, " ">> \o Render(t.y)

RECURSIVE RefValue(_, _)
\* the truth value of the source expression when exactly the features in on are enabled
RefValue(t, on) ==
    CASE t.k = "f"   -> t.n \in on
      [] t.k = "not" -> ~RefValue(t.x, on)
      [] t.k = "par" -> RefValue(t.x, on)
      [] t.k = "and" -> RefValue(t.x, on) /\ RefValue(t.y, on)
      [] OTHER       -> RefValue(t.x, on) \/ RefValue(t.y, on)

\* a YANG 1.1 module with the features a, b, c and no if-feature of their own
IffCtx ==
    [mod |-> 1,
     mods |-> <<[name |-> "A", prefix |-> <<"p">>, version |-> LYS_VERSION_1_1, imports |-> <<>>]>>,
     feats |-> <<[mod |-> 1, name |-> <<"a">>, iffeatures |-> <<>>, depfeatures |-> <<>>],
                 [mod |-> 1, name |-> <<"b">>, iffeatures |-> <<>>, depfeatures |-> <<>>],
                 [mod |-> 1, name |-> <<"c">>, iffeatures |-> <<>>, depfeatures |-> <<>>]>>]

\* the 2-bit opcodes of a compiled expression, in evaluation order
Opcodes(ie, n) == [k \in 1..n |-> iff_getop(ie.expr, k - 1)]

\* what a build can do where the C code runs into undefined behaviour: the
\* assert of iff_setop aborts, or (NDEBUG) the indices never come back to -1
\* and the final check answers LY_EINT
UBOutcomes == {"abort", "LY_EINT"}

NoIff == [rc |-> "none", expr |-> <<>>, features |-> <<>>]

IffInit ==
    /\ src \in WellFormed
    /\ iffpc = "start"
    /\ iff = NoIff
    /\ assign = {}
    /\ val = 0

IffCompile ==
    /\ iffpc = "start"
    /\ \E r \in {lys_compile_iffeature(IffCtx, Str(Render(src)))} :
           IF r.rc = "UB"
           THEN \E o \in UBOutcomes : iff' = [NoIff EXCEPT !.rc = o]
           ELSE iff' = r
    /\ iffpc' = "compiled"
    /\ UNCHANGED <<src, assign, val, featvars, rangevars, schemavars>>

IffEvaluate ==
    /\ iffpc = "compiled"
    /\ iff.rc = "LY_SUCCESS"
    /\ \E on \in SUBSET IffNames :
          /\ assign' = on
          /\ val' = lysc_iffeature_value(
                       [f \in 1..Len(IffCtx.feats) |-> \E n \in on : IffCtx.feats[f].name = <<n>>], iff)
    /\ iffpc' = "evaluated"
    /\ UNCHANGED <<src, iff, featvars, rangevars, schemavars>>

---------------------------------------------------------------------------
(* lys_compile_feature and the feature part of lys_compile                 *)

RECURSIVE CompileIffeatures(_, _, _)
\* COMPILE_ARRAY_GOTO(ctx, feature_p->iffeatures, feature->iffeatures, ..., lys_compile_iffeature)
\* returns [rc, iffs]
CompileIffeatures(ctx, strs, acc) ==
    IF strs = <<>> THEN [rc |-> "LY_SUCCESS", iffs |-> acc]
    ELSE Bind(lys_compile_iffeature(ctx, Head(strs)),
              LAMBDA r : IF r.rc # "LY_SUCCESS" THEN [rc |-> r.rc, iffs |-> acc]
                         ELSE CompileIffeatures(ctx, Tail(strs),
                                  Append(acc, [expr |-> r.expr, features |-> r.features])))

RECURSIVE AddDependants(_, _, _)
\* "add itself into the dependants list": refs are the features the if-features
\* of feature self point to, in array order
AddDependants(fs, refs, self) ==
    IF refs = <<>> THEN fs
    ELSE Bind([fs EXCEPT ![Head(refs)].depfeatures = Append(@, self)],
              LAMBDA n : AddDependants(n, Tail(refs), self))

\* lys_compile_feature(): fs already holds the new, zeroed feature as its last
\* element (LY_ARRAY_INCREMENT precedes the call); returns [rc, feats]
lys_compile_feature(mods, m, feature_p, fs) ==
    LET self == Len(fs)
        named == [fs EXCEPT ![self].name = feature_p.name]
    IN  Bind(CompileIffeatures([mod |-> m, mods |-> mods, feats |-> named], feature_p.iffeatures, <<>>),
             LAMBDA r :
                 LET withiff == [named EXCEPT ![self].iffeatures = r.iffs]
                     refs == Flatten([u \in 1..Len(r.iffs) |-> r.iffs[u].features])
                 IN  IF r.rc # "LY_SUCCESS" THEN [rc |-> r.rc, feats |-> withiff]
                     ELSE [rc |-> "LY_SUCCESS", feats |-> AddDependants(withiff, refs, self)])

RECURSIVE CompileFeatures(_, _, _, _)
\* COMPILE_ARRAY_GOTO(&ctx, sp->features, mod_c->features, ..., lys_compile_feature)
CompileFeatures(mods, m, u, fs) ==
    IF u > Len(mods[m].features) THEN [rc |-> "LY_SUCCESS", feats |-> fs]
    ELSE Bind(lys_compile_feature(mods, m, mods[m].features[u],
                  Append(fs, [mod |-> m, name |-> <<>>, iffeatures |-> <<>>, depfeatures |-> <<>>])),
              LAMBDA r : IF r.rc # "LY_SUCCESS" THEN r ELSE CompileFeatures(mods, m, u + 1, r.feats))

RECURSIVE CompileModules(_, _, _)
\* lys_compile() of the modules 1, 2, ... in turn (imports first)
CompileModules(mods, m, fs) ==
    IF m > Len(mods) THEN [rc |-> "LY_SUCCESS", feats |-> fs]
    ELSE Bind(CompileFeatures(mods, m, 1, fs),
              LAMBDA r : IF r.rc # "LY_SUCCESS" THEN r ELSE CompileModules(mods, m + 1, r.feats))

---------------------------------------------------------------------------
(* The feature runtime: lys_feature_change                                 *)

\* the features of module m, in the order of mod->features
ModFeatures(fs, m) == SelectSeq([f \in 1..Len(fs) |-> f], LAMBDA f : fs[f].mod = m)

\* every if-feature of feature f evaluates true (the loops over f->iffeatures)
IffeaturesHold(fs, en, f) ==
    \A u \in 1..Len(fs[f].iffeatures) : lysc_iffeature_value(en, fs[f].iffeatures[u]) # 0

\* the check left out: a feature is enabled whatever its if-features say
EnableAllowed_Always(fs, en, f) == TRUE

\* "check referenced features if they are enabled": may feature f be enabled now
EnableAllowed(fs, en, f) == IffeaturesHold(fs, en, f)

\* "continue" in place of the early return: the call goes on to "not found"
AlreadySetResult_Skip(st) == st

\* "feature already set correctly": the early return of the single-feature call
AlreadySetResult(st) == [st EXCEPT !.ret = "LY_SUCCESS"]

\* the body of the for loop at label run for the feature f = mod->features[u];
\* st = [en, changed, disabled_count, ret, passes]; ret "run" goes on to the
\* next feature, "break" leaves the loop
FeatureStep(fs, st, f, name, value) ==
    LET all == name = <<"*">>
    IN  IF ~(all \/ fs[f].name = name) THEN st
        ELSE IF (value = 1 /\ st.en[f]) \/ (value = 0 /\ ~st.en[f])
        THEN IF all THEN st ELSE AlreadySetResult(st)
        ELSE IF value = 1 /\ ~EnableAllowed(fs, st.en, f)
        THEN IF all THEN [st EXCEPT !.disabled_count = @ + 1]
             ELSE [st EXCEPT !.ret = "LY_EDENIED"]
        ELSE [st EXCEPT !.en[f] = (value = 1), !.changed = Append(@, f),
                        !.ret = IF all THEN "run" ELSE "break"]

RECURSIVE FeaturePass(_, _, _, _, _, _)
\* one run of the for loop at label run over mf, the features of the module
FeaturePass(fs, st, mf, u, name, value) ==
    IF u > Len(mf) \/ st.ret # "run" THEN st
    ELSE Bind(FeatureStep(fs, st, mf[u], name, value),
              LAMBDA n : FeaturePass(fs, n, mf, u + 1, name, value))

\* the restore loop left out
Rollback_None(en, changed) == en

RECURSIVE Rollback(_, _)
\* "restore the original state": re-disable the features in changed
Rollback(en, changed) ==
    IF changed = <<>> THEN en
    ELSE Bind([en EXCEPT ![Head(changed)] = FALSE], LAMBDA n : Rollback(n, Tail(changed)))

\* the dependent features are not looked at
DepUpdate_None(fs, st, df) == st

\* the "reverse logic" added: a disabled dependent whose if-features hold is enabled
DepUpdate_AutoEnable(fs, st, df) ==
    IF IffeaturesHold(fs, st.en, df) = st.en[df] THEN st
    ELSE [st EXCEPT !.en[df] = ~@, !.changed = Append(@, df)]

\* a dependent feature is checked whether it is enabled or not
DepUpdate_NoEnabledCheck(fs, st, df) ==
    IF ~IffeaturesHold(fs, st.en, df)
    THEN [st EXCEPT !.en[df] = FALSE, !.changed = Append(@, df)]
    ELSE st

\* the body of the loop over f->depfeatures for one dependent feature df;
\* st = [en, changed]
DepUpdate(fs, st, df) ==
    IF ~st.en[df] THEN st
    ELSE IF ~IffeaturesHold(fs, st.en, df)
         THEN [st EXCEPT !.en[df] = FALSE, !.changed = Append(@, df)]
         ELSE st

RECURSIVE DepLoop(_, _, _)
DepLoop(fs, st, dfs) ==
    IF dfs = <<>> THEN st
    ELSE Bind(DepUpdate(fs, st, Head(dfs)), LAMBDA n : DepLoop(fs, n, Tail(dfs)))

RECURSIVE Propagate(_, _, _)
\* "reflect change(s) in the dependent features"
Propagate(fs, st, u) ==
    IF u > Len(st.changed) THEN st
    ELSE Bind(DepLoop(fs, st, fs[st.changed[u]].depfeatures), LAMBDA n : Propagate(fs, n, u + 1))

\* what follows the for loop, for the state p it left: the not-found error,
\* the rollback, or the propagation; ret "again" stands for goto run
FeatureAfterPass(fs, p, name, value, changed_count) ==
    LET all == name = <<"*">>
    IN  IF p.ret \in {"LY_SUCCESS", "LY_EDENIED"} THEN p
        ELSE IF ~all /\ Len(p.changed) = 0 THEN [p EXCEPT !.ret = "LY_EINVAL"]
        ELSE IF value = 1 /\ all /\ p.disabled_count # 0
        THEN IF changed_count = Len(p.changed)
             THEN [p EXCEPT !.en = Rollback(p.en, p.changed), !.ret = "LY_EDENIED"]
             ELSE [p EXCEPT !.ret = "again"]
        ELSE Bind(Propagate(fs, [en |-> p.en, changed |-> p.changed], 1),
                  LAMBDA q : [p EXCEPT !.en = q.en, !.changed = q.changed, !.ret = "LY_SUCCESS",
                                       !.run = Len(p.changed)])

RECURSIVE FeatureRun(_, _, _, _, _, _)
\* from label run to the return; passes counts the runs of the for loop
FeatureRun(fs, st, mf, name, value, changed_count) ==
    Bind(FeaturePass(fs, [st EXCEPT !.disabled_count = 0], mf, 1, name, value),
         LAMBDA p : Bind(FeatureAfterPass(fs, p, name, value, changed_count),
             LAMBDA a : IF a.ret # "again" THEN a
                        ELSE FeatureRun(fs, [a EXCEPT !.ret = "run", !.passes = @ + 1],
                                        mf, name, value, Len(a.changed))))

\* lys_feature_change(mod, name, value): [ret, en, changed, passes, disabled_count, run];
\* run is changed->count when the loop over the changed features is entered
lys_feature_change(fs, en, m, name, value) ==
    LET st0 == [en |-> en, changed |-> <<>>, disabled_count |-> 0, ret |-> "run", passes |-> 1,
                run |-> 0]
    IN  IF ModFeatures(fs, m) = <<>> THEN [st0 EXCEPT !.ret = "LY_EINVAL"]
        ELSE FeatureRun(fs, st0, ModFeatures(fs, m), name, value, 0)

\* lys_feature_value(module, feature): 1, 0, or -1 when there is no such feature
lys_feature_value(fs, en, m, name) ==
    LET hit == {f \in 1..Len(fs) : fs[f].mod = m /\ fs[f].name = name}
    IN  IF hit = {} THEN -1
        ELSE IF en[CHOOSE f \in hit : \A g \in hit : f <= g] THEN 1 ELSE 0

---------------------------------------------------------------------------
(* Range / length restrictions                                             *)
(* A range part is [min, max]: the 64-bit fields min_64 / max_64, which    *)
(* the unsigned types read as min_u64 / max_u64 (the same bits).  A value  *)
(* of the model is the int64_t reading of the field.  The base types of    *)
(* the model are int8 and uint8; the decimal64 branch of the value syntax  *)
(* and the other cases of the switch are not taken by them.                *)

LY_TYPE_INT8 == "LY_TYPE_INT8"
LY_TYPE_UINT8 == "LY_TYPE_UINT8"

INT8_MIN == -128
INT8_MAX == 127
UINT8_MAX == 255

\* (uint64_t)a < (uint64_t)b
ULess(a, b) == IF (a < 0) = (b < 0) THEN a < b ELSE b < 0

DigitChars == <<"0", "1", "2", "3", "4", "5", "6", "7", "8", "9">>

DigitVal(ch) == CHOOSE d \in 0..9 : DigitChars[d + 1] = ch

RECURSIVE strtoll_digits(_, _, _)
\* the run of digits of s from position i (1-based) on: its value added to
\* acc, and the position after it
strtoll_digits(s, i, acc) ==
    IF i <= Len(s) /\ isdigit(s[i])
    THEN strtoll_digits(s, i + 1, acc * 10 + DigitVal(s[i]))
    ELSE [val |-> acc, end |-> i]

\* strtoll(s, &strptr, 10) and the bits of strtoull(s, &strptr, 10): an
\* optional sign and digits; without a digit nothing is converted, the
\* value is 0 and strptr stays at the start
strtoll(s) ==
    Bind(IF Len(s) > 0 /\ s[1] \in {"-", "+"} THEN 2 ELSE 1, LAMBDA start :
    Bind(strtoll_digits(s, start, 0), LAMBDA d :
        IF d.end = start THEN [val |-> 0, end |-> 1]
        ELSE [val |-> IF s[1] = "-" THEN 0 - d.val ELSE d.val, end |-> d.end]))

\* ly_parse_int(val_str, min, max, 10, ret): the value is stored, then
\* checked against the limits, then the rest of the string is checked
ly_parse_int(val_str, min, max) ==
    Bind(strtoll(val_str), LAMBDA p :
        [val |-> p.val,
         ret |-> IF p.val < min \/ p.val > max THEN "LY_EDENIED"
                 ELSE IF p.end <= Len(val_str) THEN "LY_EVALID"
                 ELSE "LY_SUCCESS"])

\* ly_parse_uint(val_str, max, 10, ret)
ly_parse_uint(val_str, max) ==
    Bind(strtoll(val_str), LAMBDA p :
        [val |-> p.val,
         ret |-> IF ULess(max, p.val) \/ (p.val # 0 /\ val_str[1] = "-") THEN "LY_EDENIED"
                 ELSE IF p.end <= Len(val_str) THEN "LY_EVALID"
                 ELSE "LY_SUCCESS"])

RECURSIVE SkipDigits(_, _)
\* while (isdigit(value[*len])) ++(*len);
SkipDigits(c, i) == IF isdigit(Ch(c, i)) THEN SkipDigits(c, i + 1) ELSE i

\* range_part_check_value_syntax() on the value at c[i]: [ret, len, valcopy]
range_part_check_value_syntax(basetype, c, i) ==
    IF ~isdigit(Ch(c, i)) /\ Ch(c, i) # "-" /\ Ch(c, i) # "+"
    THEN [ret |-> "LY_EVALID", len |-> 0, valcopy |-> <<>>]
    ELSE Bind(SkipDigits(c, IF Ch(c, i) \in {"-", "+"} THEN i + 1 ELSE i), LAMBDA e :
             [ret |-> "LY_SUCCESS", len |-> e - i, valcopy |-> Sub(c, i, e)])

range_part_check_ascendance(unsigned_value, value, prev_value) ==
    IF unsigned_value
    THEN IF ~ULess(prev_value, value) THEN "LY_EEXIST" ELSE "LY_SUCCESS"
    ELSE IF prev_value >= value THEN "LY_EEXIST" ELSE "LY_SUCCESS"

\* the limits written in the cases LY_TYPE_INT8 and LY_TYPE_UINT8 of the switch
TypeLimits(basetype) ==
    IF basetype = LY_TYPE_INT8
    THEN [uns |-> FALSE, min |-> INT8_MIN, max |-> INT8_MAX]
    ELSE [uns |-> TRUE, min |-> 0, max |-> UINT8_MAX]

\* one case of the switch of range_part_minmax(): the value is parsed (or the
\* type's limit taken when there is no value), stored in the part, and for a
\* value that is not the first one the result of the ascendance check
\* replaces the result of the parse
MinMaxCase(part, max, prev, basetype, first, valcopy) ==
    Bind(TypeLimits(basetype), LAMBDA lim :
    Bind(IF valcopy # <<>>
         THEN IF lim.uns THEN ly_parse_uint(valcopy, lim.max)
                         ELSE ly_parse_int(valcopy, lim.min, lim.max)
         ELSE [val |-> IF max THEN lim.max ELSE lim.min, ret |-> "LY_SUCCESS"], LAMBDA p :
        [part |-> IF max THEN [part EXCEPT !.max = p.val] ELSE [part EXCEPT !.min = p.val],
         ret |-> IF first THEN p.ret
                 ELSE range_part_check_ascendance(lim.uns, p.val, prev)]))

\* range_part_minmax(ctx, part, max, prev, basetype, first, length_restr, value);
\* value is NULL (hasvalue = FALSE) or points at c[i]: [ret, part, i]
range_part_minmax(part, max, prev, basetype, first, hasvalue, c, i) ==
    Bind(IF hasvalue THEN range_part_check_value_syntax(basetype, c, i)
         ELSE [ret |-> "LY_SUCCESS", len |-> 0, valcopy |-> <<>>], LAMBDA syn :
        IF syn.ret # "LY_SUCCESS" THEN [ret |-> syn.ret, part |-> part, i |-> i]
        ELSE Bind(MinMaxCase(part, max, prev, basetype, first, syn.valcopy), LAMBDA r :
                 [ret |-> r.ret, part |-> r.part,
                  i |-> IF r.ret = "LY_SUCCESS" THEN i + syn.len ELSE i]))

\* the message range_part_minmax() logs for its result
MinMaxMsg(r) ==
    CASE r = "LY_EDENIED" -> "does not fit the type limitations"
      [] r = "LY_EVALID"  -> "invalid value"
      [] r = "LY_EEXIST"  -> "not in ascending order"
      [] OTHER            -> "none"

\* "goto cleanup" with the message logged before it; ret keeps LY_EVALID
RangeFail(st, msg) == [st EXCEPT !.rc = "fail", !.msg = msg]

\* LY_ARRAY_NEW_GOTO(ctx->ctx, parts, part, ret, cleanup)
NewPart == [min |-> 0, max |-> 0]

RECURSIVE SkipSpaces(_, _)
\* while (isspace(*expr)) expr++;
SkipSpaces(c, i) == IF isspace(Ch(c, i)) THEN SkipSpaces(c, i + 1) ELSE i

\* the branches of the parsing loop of lys_compile_type_range(); the state is
\* st = [i, parts, range_expected, parts_done, rc, msg] with expr = &c[i]
RangeEnd(st) ==
    IF st.range_expected THEN RangeFail(st, "unexpected end of the expression after ..")
    ELSE IF st.parts = <<>> \/ st.parts_done = Len(st.parts)
    THEN RangeFail(st, "unexpected end of the expression")
    ELSE [st EXCEPT !.parts_done = @ + 1, !.rc = "parsed"]

RangeMin(basetype, c, st) ==
    IF st.parts # <<>> THEN RangeFail(st, "unexpected data before min keyword")
    ELSE Bind(range_part_minmax(NewPart, FALSE, 0, basetype, TRUE, FALSE, c, st.i + 3), LAMBDA r :
             IF r.ret # "LY_SUCCESS"
             THEN RangeFail([st EXCEPT !.parts = <<r.part>>], MinMaxMsg(r.ret))
             ELSE [st EXCEPT !.i = @ + 3, !.parts = <<[r.part EXCEPT !.max = r.part.min]>>])

RangeBar(st) ==
    IF st.parts = <<>> \/ st.range_expected
    THEN RangeFail(st, "unexpected beginning of the expression")
    ELSE [st EXCEPT !.i = @ + 1, !.parts_done = @ + 1]

RangeDots(c, st) ==
    IF st.parts = <<>> \/ Len(st.parts) = st.parts_done
    THEN RangeFail(st, "unexpected .. without a lower bound")
    ELSE [st EXCEPT !.i = SkipSpaces(c, st.i + 2), !.range_expected = TRUE]

\* a boundary that closes the last part: the value at c[i], or max
RangeUpper(basetype, c, st, hasvalue) ==
    Bind(Len(st.parts), LAMBDA n :
    Bind(range_part_minmax(st.parts[n], TRUE, st.parts[n].min, basetype, FALSE, hasvalue, c, st.i),
         LAMBDA r :
             IF r.ret # "LY_SUCCESS"
             THEN RangeFail([st EXCEPT !.parts[n] = r.part], MinMaxMsg(r.ret))
             ELSE [st EXCEPT !.parts[n] = r.part, !.i = r.i, !.range_expected = FALSE]))

\* a boundary that opens a new part: the value at c[i] (max = FALSE), or max
RangeNewPart(basetype, c, st, max, hasvalue) ==
    Bind(IF st.parts_done # 0 THEN st.parts[Len(st.parts)].max ELSE 0, LAMBDA prev :
    Bind(range_part_minmax(NewPart, max, prev, basetype, st.parts_done = 0, hasvalue, c, st.i),
         LAMBDA r :
             IF r.ret # "LY_SUCCESS"
             THEN RangeFail([st EXCEPT !.parts = Append(@, r.part)], MinMaxMsg(r.ret))
             ELSE [st EXCEPT !.i = r.i,
                             !.parts = Append(@, IF max THEN [r.part EXCEPT !.min = r.part.max]
                                                        ELSE [r.part EXCEPT !.max = r.part.min])]))

RangeNumber(basetype, c, st) ==
    IF st.range_expected THEN RangeUpper(basetype, c, st, TRUE)
    ELSE RangeNewPart(basetype, c, st, FALSE, TRUE)

RangeMax(basetype, c, st) ==
    Bind([st EXCEPT !.i = SkipSpaces(c, st.i + 3)], LAMBDA s :
        IF Ch(c, s.i) # NUL THEN RangeFail(s, "unexpected data after max keyword")
        ELSE IF s.range_expected THEN RangeUpper(basetype, c, s, FALSE)
        ELSE RangeNewPart(basetype, c, s, TRUE, FALSE))

\* one turn of while(1)
RangeStep(basetype, c, st) ==
    IF isspace(Ch(c, st.i)) THEN [st EXCEPT !.i = @ + 1]
    ELSE IF Ch(c, st.i) = NUL THEN RangeEnd(st)
    ELSE IF StartsWith(c, st.i, <<"m", "i", "n">>) THEN RangeMin(basetype, c, st)
    ELSE IF Ch(c, st.i) = "|" THEN RangeBar(st)
    ELSE IF StartsWith(c, st.i, <<".", ".">>) THEN RangeDots(c, st)
    ELSE IF isdigit(Ch(c, st.i)) \/ Ch(c, st.i) \in {"-", "+"} THEN RangeNumber(basetype, c, st)
    ELSE IF StartsWith(c, st.i, <<"m", "a", "x">>) THEN RangeMax(basetype, c, st)
    ELSE RangeFail(st, "unexpected data")

RECURSIVE RangeLoop(_, _, _)
RangeLoop(basetype, c, st) ==
    IF st.rc # "run" THEN st
    ELSE Bind(RangeStep(basetype, c, st), LAMBDA n : RangeLoop(basetype, c, n))

\* no range: the NULL base_range, and *range of a failed compilation
NoRange == <<>>

RECURSIVE BaseWalk(_, _, _, _, _, _)
\* the loop "for (u = v = 0; u < parts_done && v < LY_ARRAY_SIZE(base_range->parts); ++u)"
\* from the values u and v at the test of its condition: the u it ends with,
\* or "baseerror"
BaseWalk(parts, parts_done, base, uns, u, v) ==
    IF ~(u < parts_done /\ v < Len(base)) THEN [rc |-> "end", u |-> u]
    ELSE IF u >= Len(parts) THEN [rc |-> "UB", u |-> u]
    ELSE LET p == parts[u + 1]
             b == base[v + 1]
             Less(x, y) == IF uns THEN ULess(x, y) ELSE x < y
         IN  IF Less(p.min, b.min) THEN [rc |-> "baseerror", u |-> u]
             ELSE IF b.min = b.max
             THEN IF b.min = p.min
                  THEN IF p.min # p.max THEN [rc |-> "baseerror", u |-> u]
                       ELSE BaseWalk(parts, parts_done, base, uns, u + 1, v + 1)
                  ELSE BaseWalk(parts, parts_done, base, uns, u, v + 1)
             ELSE IF p.min = p.max
             THEN IF Less(b.max, p.max)
                  THEN BaseWalk(parts, parts_done, base, uns, u, v + 1)
                  ELSE BaseWalk(parts, parts_done, base, uns, u + 1, v)
             ELSE IF Less(b.max, p.max)
             THEN IF Less(b.max, p.min)
                  THEN BaseWalk(parts, parts_done, base, uns, u, v + 1)
                  ELSE [rc |-> "baseerror", u |-> u]
             ELSE BaseWalk(parts, parts_done, base, uns, u + 1, v)

\* "check with the previous range/length restriction"
BaseCheck(parts, parts_done, base, basetype) ==
    Bind(BaseWalk(parts, parts_done, base, TypeLimits(basetype).uns, 0, 0), LAMBDA w :
        IF w.rc = "end" THEN (IF w.u # parts_done THEN "baseerror" ELSE "ok") ELSE w.rc)

\* lys_compile_type_range(ctx, range_p, basetype, length_restr, base_range, range)
\* with range_p->arg = c: [ret, msg, parts, parts_done, range], parts and
\* parts_done the locals at the end, range the parts stored in *range
lys_compile_type_range(c, basetype, base_range) ==
    Bind(RangeLoop(basetype, c, [i |-> 0, parts |-> <<>>, range_expected |-> FALSE,
                                 parts_done |-> 0, rc |-> "run", msg |-> "none"]), LAMBDA st :
        IF st.rc = "fail"
        THEN [ret |-> "LY_EVALID", msg |-> st.msg, parts |-> st.parts,
              parts_done |-> st.parts_done, range |-> NoRange]
        ELSE Bind(IF base_range = NoRange THEN "ok"
                  ELSE BaseCheck(st.parts, st.parts_done, base_range, basetype), LAMBDA chk :
                 IF chk = "ok"
                 THEN [ret |-> "LY_SUCCESS", msg |-> "none", parts |-> st.parts,
                       parts_done |-> st.parts_done, range |-> st.parts]
                 ELSE [ret |-> IF chk = "UB" THEN "UB" ELSE "LY_EVALID",
                       msg |-> "not equally or more limiting", parts |-> st.parts,
                       parts_done |-> st.parts_done, range |-> NoRange]))

---------------------------------------------------------------------------
(* Range expressions compiled by the model                                 *)
(* An expression is a sequence of parts [lo, hi] of tokens [t, v]: a       *)
(* number, min, max, or (for hi) none when the part is a single value.     *)

MaxVal == 4

Num(n) == [t |-> "num", v |-> n]
MinTok == [t |-> "min", v |-> 0]
MaxTok == [t |-> "max", v |-> 0]
NoTok == [t |-> "none", v |-> 0]
\* as the upper token of a part: the number n follows after a blank, without ".." or "|"
Blank(n) == [t |-> "blank", v |-> n]

RECURSIVE Digits(_)
Digits(n) == IF n < 10 THEN <<DigitChars[n + 1]>> ELSE Digits(n \div 10) \o <<DigitChars[(n % 10) + 1]>>

TokText(tok) ==
    CASE tok.t = "num"  -> IF tok.v < 0 THEN <<"-">> \o Digits(0 - tok.v) ELSE Digits(tok.v)
      [] tok.t = "none" -> <<>>
      [] OTHER          -> Spell(tok.t)

PartText(p) ==
    TokText(p.lo) \o (IF p.hi.t = "none" THEN <<>>
                      ELSE IF p.hi.t = "blank" THEN <<" ">> \o TokText(Num(p.hi.v))
                      ELSE Spell("..") \o TokText(p.hi))

RECURSIVE RangeText(_)
\* the text of an expression: "lo..hi | lo..hi"
RangeText(e) ==
    IF e = <<>> THEN <<>>
    ELSE IF Len(e) = 1 THEN PartText(e[1])
    ELSE PartText(e[1]) \o <<" ", "|", " ">> \o RangeText(Tail(e))

\* every part over the values V, in any order of its two values
AnyParts(V) ==
    LET Lo == {Num(n) : n \in V} \cup {MinTok}
        Hi == {Num(n) : n \in V} \cup {MaxTok, NoTok}
    IN  {[lo |-> l, hi |-> h] : l \in Lo, h \in Hi}

AnyExprs(V) == {<<p>> : p \in AnyParts(V)} \cup {<<p, q>> : p \in AnyParts(V), q \in AnyParts(V)}

\* the expressions of numbers of V that are strictly ascending
AscParts(V) ==
    {[lo |-> Num(a), hi |-> NoTok] : a \in V}
        \cup {[lo |-> Num(x[1]), hi |-> Num(x[2])] : x \in {y \in V \X V : y[1] < y[2]}}

PartTop(p) == IF p.hi.t = "none" THEN p.lo.v ELSE p.hi.v

AscExprs(V) ==
    {<<p>> : p \in AscParts(V)}
        \cup {e \in {<<p, q>> : p \in AscParts(V), q \in AscParts(V)} : e[2].lo.v > PartTop(e[1])}

\* e, with min as its first boundary, with max as its last boundary
WithMinMax(e) ==
    {e, [e EXCEPT ![1].lo = MinTok], [e EXCEPT ![Len(e)].hi = MaxTok]}

Int8Vals == {INT8_MIN - 1, INT8_MIN, 0, INT8_MAX, INT8_MAX + 1}

\* the restrictions compiled: the type, the range of its typedef (or none)
\* and the range of the type derived from it
RangeInputs ==
    {[type |-> LY_TYPE_INT8, base |-> <<>>, expr |-> e] : e \in AnyExprs(Int8Vals)}
    \cup {[type |-> LY_TYPE_UINT8, base |-> b, expr |-> e] :
            b \in {<<>>} \cup AscExprs(0..MaxVal)
                   \cup {<<[lo |-> MinTok, hi |-> Num(MaxVal)]>>, <<[lo |-> Num(1), hi |-> MaxTok]>>},
            e \in UNION {WithMinMax(x) : x \in AscExprs(0..MaxVal)}}
    \cup {[type |-> LY_TYPE_UINT8, base |-> <<[lo |-> Num(10), hi |-> Num(50)]>>,
           expr |-> <<[lo |-> MinTok, hi |-> Num(20)]>>],
          [type |-> LY_TYPE_UINT8, base |-> <<[lo |-> Num(10), hi |-> Num(50)]>>,
           expr |-> <<[lo |-> Num(20), hi |-> MaxTok]>>],
          [type |-> LY_TYPE_UINT8, base |-> <<[lo |-> Num(10), hi |-> Num(200)]>>,
           expr |-> <<[lo |-> Num(0), hi |-> Num(100)]>>],
          [type |-> LY_TYPE_UINT8, base |-> <<>>, expr |-> <<[lo |-> Num(0), hi |-> Num(256)]>>]}
    \cup {[type |-> LY_TYPE_UINT8, base |-> <<>>, expr |-> <<[lo |-> Num(a), hi |-> Blank(b)]>> \o e] :
            a \in 0..MaxVal, b \in 0..MaxVal, e \in {<<>>, <<[lo |-> Num(MaxVal), hi |-> NoTok]>>}}
    \cup {[type |-> LY_TYPE_INT8, base |-> <<>>, expr |-> <<[lo |-> Num(a), hi |-> Blank(b)]>>] :
            a \in {INT8_MIN, 0, INT8_MAX}, b \in {INT8_MIN, 0, INT8_MAX}}

NoRes == [ret |-> "none", msg |-> "none", parts |-> <<>>, parts_done |-> 0, range |-> NoRange]

RangeInit ==
    /\ \E x \in RangeInputs : rtype = x.type /\ rbase = x.base /\ rexpr = x.expr
    /\ rpc = "start"
    /\ rbres = NoRes
    /\ rres = NoRes

IdleRange ==
    /\ rtype = LY_TYPE_INT8 /\ rbase = <<>> /\ rexpr = <<>>
    /\ rpc = "idle" /\ rbres = NoRes /\ rres = NoRes

\* the range of the typedef is compiled (no base range)
RangeCompileBase ==
    /\ rpc = "start" /\ rbase # <<>>
    /\ \E r \in {lys_compile_type_range(RangeText(rbase), rtype, NoRange)} : rbres' = r
    /\ rpc' = "base"
    /\ UNCHANGED <<rtype, rbase, rexpr, rres, featvars, iffvars, schemavars>>

\* the range of the derived type is compiled against the typedef's range
RangeCompileDerived ==
    /\ \/ rpc = "start" /\ rbase = <<>>
       \/ rpc = "base" /\ rbres.ret = "LY_SUCCESS"
    /\ \E r \in {lys_compile_type_range(RangeText(rexpr), rtype, rbres.range)} :
          IF r.ret = "UB" THEN \E o \in {"LY_SUCCESS", "LY_EVALID"} : rres' = [r EXCEPT !.ret = o]
          ELSE rres' = r
    /\ rpc' = "done"
    /\ UNCHANGED <<rtype, rbase, rexpr, rbres, featvars, iffvars, schemavars>>

---------------------------------------------------------------------------
(* Enumeration and bits items: lys_compile_type_enums                      *)
(* A parsed item (lysp_type_enum) is [name, flags, value]; flags holds     *)
(* LYS_SET_VALUE when the item gives its value or position.  A compiled    *)
(* item (lysc_type_enum_item) is [name, value].  Values and positions are  *)
(* held as the int32_t bit pattern the item's value field stores: the      *)
(* position p >= 2^31 is the pattern p - 2^32, (uint32_t) comparisons are  *)
(* ULess on patterns.                                                      *)

LY_TYPE_UNKNOWN == "LY_TYPE_UNKNOWN"
LY_TYPE_BITS == "LY_TYPE_BITS"
LY_TYPE_BOOL == "LY_TYPE_BOOL"
LY_TYPE_ENUM == "LY_TYPE_ENUM"
LY_TYPE_STRING == "LY_TYPE_STRING"

LYS_SET_VALUE == "LYS_SET_VALUE"

INT32_MAX == 2147483647
INT32_MIN == -2147483647 - 1
\* UINT32_MAX as the int32_t pattern that stores it
UINT32_MAX == -1

\* x + 1 in 32 bits, modulo 2^32 (on patterns)
Inc32(x) == IF x = INT32_MAX THEN INT32_MIN ELSE x + 1

\* what a build can do with the signed overflow of value = e->value + 1 and
\* of value++: wrap to INT32_MIN, or trap
SignedOverflow == {"wrap", "abort"}

EnumFail(st, msg) == [st EXCEPT !.ret = "LY_EVALID", !.msg = msg]

\* the lowest index v with base_enums[v].name = name, 0 if there is none
\* (v == LY_ARRAY_SIZE(base_enums) in the code)
EnumMatch(base_enums, name) ==
    LET hit == {v \in 1..Len(base_enums) : base_enums[v].name = name}
    IN  IF hit = {} THEN 0 ELSE CHOOSE v \in hit : \A w \in hit : v <= w

\* "check collision with other values": the items stored before this one
EnumCollides(enums, ev) == \E v \in 1..Len(enums) : enums[v].value = ev

\* if (!u || e->value >= value) value = e->value + 1;  st.ret becomes "abort"
\* when the addition overflows and the build traps
EnumNextValue(st, u, ev, ub) ==
    IF u = 0 \/ ev >= st.value
    THEN IF ev = INT32_MAX /\ ub = "abort" THEN [st EXCEPT !.ret = "abort"]
         ELSE [st EXCEPT !.value = Inc32(ev)]
    ELSE st

\* if (!u || (uint32_t)e->value >= position) position = (uint32_t)e->value + 1;
BitNextPosition(st, u, ev) ==
    IF u = 0 \/ ~ULess(ev, st.position) THEN [st EXCEPT !.position = Inc32(ev)] ELSE st

\* "keep bits ordered by position": the index the new last item is moved to
RECURSIVE BitInsertAt(_, _, _)
BitInsertAt(enums, v, ev) ==
    IF v > 0 /\ enums[v].value > ev THEN BitInsertAt(enums, v - 1, ev) ELSE v

\* the new item e stored as the last one, then moved to its place for bits
EnumStore(enums, e, basetype) ==
    IF basetype = LY_TYPE_BITS
    THEN LET v == BitInsertAt(enums, Len(enums), e.value)
         IN  SubSeq(enums, 1, v) \o <<e>> \o SubSeq(enums, v + 1, Len(enums))
    ELSE Append(enums, e)

\* the check left out: the item is stored whatever value the base gives it
EnumFinish_NoBaseCheck(st, item_p, basetype, base_enums, match, ev) ==
    IF st.ret # "LY_SUCCESS" THEN st
    ELSE [st EXCEPT !.enums = EnumStore(@, [name |-> item_p.name, value |-> ev], basetype)]

\* the value check against the base and the storing of the item, shared by
\* the three ways an item gets its value
EnumFinish(st, item_p, basetype, base_enums, match, ev) ==
    IF st.ret # "LY_SUCCESS" THEN st
    ELSE IF base_enums # <<>> /\ ev # base_enums[match].value
    THEN EnumFail(st, "has changed")
    ELSE [st EXCEPT !.enums = EnumStore(@, [name |-> item_p.name, value |-> ev], basetype)]

\* one run of the body of LY_ARRAY_FOR(enums_p, u), u counted from 0;
\* st = [ret, msg, enums, value, position]
EnumStep(st, u, item_p, basetype, base_enums, ub) ==
    LET match == EnumMatch(base_enums, item_p.name)
        explicit == LYS_SET_VALUE \in item_p.flags
    IN  IF base_enums # <<>> /\ match = 0 THEN EnumFail(st, "adds new item")
        ELSE IF basetype = LY_TYPE_ENUM
        THEN IF explicit
             THEN IF EnumCollides(st.enums, item_p.value)
                  THEN Bind(EnumNextValue(st, u, item_p.value, ub),
                            LAMBDA n : IF n.ret # "LY_SUCCESS" THEN n ELSE EnumFail(n, "collide"))
                  ELSE EnumFinish(EnumNextValue(st, u, item_p.value, ub), item_p, basetype,
                                  base_enums, match, item_p.value)
             ELSE IF base_enums # <<>>
             THEN EnumFinish(EnumNextValue(st, u, base_enums[match].value, ub), item_p, basetype,
                             base_enums, match, base_enums[match].value)
             ELSE IF u # 0 /\ st.value = INT32_MIN THEN EnumFail(st, "auto-assign")
             ELSE IF st.value = INT32_MAX /\ ub = "abort" THEN [st EXCEPT !.ret = "abort"]
             ELSE EnumFinish([st EXCEPT !.value = Inc32(@)], item_p, basetype,
                             base_enums, match, st.value)
        ELSE IF explicit
             THEN IF EnumCollides(st.enums, item_p.value)
                  THEN EnumFail(BitNextPosition(st, u, item_p.value), "collide")
                  ELSE EnumFinish(BitNextPosition(st, u, item_p.value), item_p, basetype,
                                  base_enums, match, item_p.value)
             ELSE IF base_enums # <<>>
             THEN EnumFinish(BitNextPosition(st, u, base_enums[match].value), item_p, basetype,
                             base_enums, match, base_enums[match].value)
             ELSE IF u # 0 /\ st.position = 0 THEN EnumFail(st, "auto-assign")
             ELSE EnumFinish([st EXCEPT !.position = Inc32(@)], item_p, basetype,
                             base_enums, match, st.position)

RECURSIVE EnumLoop(_, _, _, _, _, _)
\* LY_ARRAY_FOR(enums_p, u): stops at the first return
EnumLoop(st, u, enums_p, basetype, base_enums, ub) ==
    IF u >= Len(enums_p) \/ st.ret # "LY_SUCCESS" THEN st
    ELSE Bind(EnumStep(st, u, enums_p[u + 1], basetype, base_enums, ub),
              LAMBDA n : EnumLoop(n, u + 1, enums_p, basetype, base_enums, ub))

\* lys_compile_type_enums(): base_enums <<>> is the NULL array; returns
\* [ret, msg, enums], enums being what *enums holds on return
lys_compile_type_enums(enums_p, basetype, base_enums, ub) ==
    LET st == EnumLoop([ret |-> "LY_SUCCESS", msg |-> "none", enums |-> <<>>,
                        value |-> 0, position |-> 0], 0, enums_p, basetype, base_enums, ub)
    IN  [ret |-> st.ret, msg |-> st.msg, enums |-> st.enums]

---------------------------------------------------------------------------
(* Types: lys_compile_type                                                 *)
(* A parsed type statement (lysp_type) is [name, flags, range, enums,      *)
(* compiled]: the name of the type it refers to, the LYS_SET_* flags of    *)
(* its substatements, its range expression and enum items (<<>>: none) and *)
(* the address of its compiled type (0: NULL).  A typedef (lysp_tpdf) is   *)
(* [name, type].  A compiled type (lysc_type) is [basetype, refcount,      *)
(* range, enums, freed]; an address is an index into the sequence of the   *)
(* types allocated so far.  The types of the model are boolean, string,    *)
(* int8, uint8 and enumeration; its typedefs and leaves carry no status    *)
(* statement, so lysc_check_status always succeeds.                        *)

LYS_SET_RANGE == "LYS_SET_RANGE"
LYS_SET_ENUM == "LYS_SET_ENUM"
LYS_SET_LENGTH == "LYS_SET_LENGTH"
LYS_SET_PATTERN == "LYS_SET_PATTERN"

\* the restrictions a basetype allows
type_substmt_map(basetype) ==
    CASE basetype = LY_TYPE_INT8   -> {LYS_SET_RANGE}
      [] basetype = LY_TYPE_UINT8  -> {LYS_SET_RANGE}
      [] basetype = LY_TYPE_STRING -> {LYS_SET_LENGTH, LYS_SET_PATTERN}
      [] basetype = LY_TYPE_ENUM   -> {LYS_SET_ENUM}
      [] OTHER                     -> {}

\* the names of the built-in types
BuiltinType(name) ==
    CASE name = "boolean"     -> LY_TYPE_BOOL
      [] name = "string"      -> LY_TYPE_STRING
      [] name = "int8"        -> LY_TYPE_INT8
      [] name = "uint8"       -> LY_TYPE_UINT8
      [] name = "enumeration" -> LY_TYPE_ENUM
      [] OTHER                -> LY_TYPE_UNKNOWN

\* lysp_type_find(): a built-in type gives its basetype, a typedef of the
\* module its index (and no basetype), any other name LY_ENOTFOUND
lysp_type_find(name, tp) ==
    LET hit == {t \in 1..Len(tp) : tp[t].name = name}
    IN  IF BuiltinType(name) # LY_TYPE_UNKNOWN
        THEN [ret |-> "LY_SUCCESS", basetype |-> BuiltinType(name), tpdf |-> 0]
        ELSE IF hit = {} THEN [ret |-> "LY_ENOTFOUND", basetype |-> LY_TYPE_UNKNOWN, tpdf |-> 0]
        ELSE [ret |-> "LY_SUCCESS", basetype |-> LY_TYPE_UNKNOWN,
              tpdf |-> CHOOSE t \in hit : \A w \in hit : t <= w]

\* calloc(1, sizeof(struct lysc_type...)): a zeroed type at a new address
NewType == [basetype |-> LY_TYPE_UNKNOWN, refcount |-> 0, range |-> NoRange, enums |-> <<>>,
            freed |-> FALSE]

RECURSIVE TypeChain(_, _, _, _)
\* the for loop over lysp_type_find(): [basetype, chain], chain holding the
\* typedefs from the one the leaf names towards the built-in type; it stops
\* at a built-in type, at a typedef that is compiled, and at a name not found
TypeChain(tp, heap, name, chain) ==
    Bind(lysp_type_find(name, tp), LAMBDA f :
        IF f.ret # "LY_SUCCESS" THEN [basetype |-> LY_TYPE_UNKNOWN, chain |-> chain]
        ELSE IF f.basetype # LY_TYPE_UNKNOWN THEN [basetype |-> f.basetype, chain |-> chain]
        ELSE IF tp[f.tpdf].type.compiled # 0
        THEN [basetype |-> heap[tp[f.tpdf].type.compiled].basetype, chain |-> Append(chain, f.tpdf)]
        ELSE TypeChain(tp, heap, tp[f.tpdf].type.name, Append(chain, f.tpdf)))

\* the switch (basetype) that compiles the restrictions of the type statement
\* type_p into the type at st.type, against the type at st.base (0: none);
\* st = [tp, heap, type, base, ret, msg]; rub is what an undefined read in the
\* range compiler yields, ub what a signed overflow does
TypeRestrictions(st, type_p, basetype, rub, ub) ==
    IF basetype \in {LY_TYPE_INT8, LY_TYPE_UINT8} /\ type_p.range # <<>>
    THEN Bind(lys_compile_type_range(RangeText(type_p.range), basetype,
                                     IF st.base # 0 THEN st.heap[st.base].range ELSE NoRange),
              LAMBDA r :
                  IF r.ret = "LY_SUCCESS" \/ (r.ret = "UB" /\ rub = "LY_SUCCESS")
                  THEN [st EXCEPT !.heap[st.type].range = r.range]
                  ELSE [st EXCEPT !.ret = "LY_EVALID", !.msg = r.msg])
    ELSE IF basetype = LY_TYPE_ENUM /\ type_p.enums # <<>>
    THEN Bind(lys_compile_type_enums(type_p.enums, basetype,
                                     IF st.base # 0 THEN st.heap[st.base].enums ELSE <<>>, ub),
              LAMBDA r : [st EXCEPT !.heap[st.type].enums = r.enums, !.ret = r.ret, !.msg = r.msg])
    ELSE st

\* the typedef is compiled into *type, which becomes its type.compiled and
\* the base of what follows; *type is a newly allocated type
TypedefCompile(st, t, basetype, last, rub, ub) ==
    Bind(TypeRestrictions([st EXCEPT !.heap[st.type].refcount = @ + 1,
                                     !.heap[st.type].basetype = basetype],
                          st.tp[t].type, basetype, rub, ub),
         LAMBDA n :
             IF n.ret # "LY_SUCCESS" THEN n
             ELSE IF basetype = LY_TYPE_ENUM /\ last /\ n.tp[t].type.flags = {}
                     /\ n.heap[n.type].enums = <<>>
             THEN [n EXCEPT !.ret = "LY_EVALID", !.msg = "Missing enum substatement"]
             ELSE [n EXCEPT !.tp[t].type.compiled = n.type, !.base = n.type,
                            !.heap = Append(@, NewType), !.type = Len(n.heap) + 1])

\* "no change, just use the type information from the base"
TypedefAlias(st, t, next) ==
    [st EXCEPT !.tp[t].type.compiled = st.tp[next].type.compiled,
               !.base = st.tp[next].type.compiled,
               !.heap[st.tp[next].type.compiled].refcount = @ + 1]

RECURSIVE TypedefLoop(_, _, _, _, _, _)
\* "get restrictions from the referred typedefs":
\* for (u = tpdf_chain.count - 1; u + 1 > 0; --u), u counted from 1 here
TypedefLoop(st, chain, u, basetype, rub, ub) ==
    IF u < 1 \/ st.ret # "LY_SUCCESS" THEN st
    ELSE LET t == chain[u]
         IN  IF st.tp[t].type.flags \ type_substmt_map(basetype) # {}
             THEN [st EXCEPT !.ret = "LY_EVALID", !.msg = "Invalid type restriction(s)"]
             ELSE IF st.tp[t].type.compiled # 0
             THEN TypedefLoop([st EXCEPT !.base = st.tp[t].type.compiled], chain, u - 1,
                              basetype, rub, ub)
             ELSE IF u # Len(chain) /\ st.tp[t].type.flags = {}
             THEN Bind(TypedefAlias(st, t, chain[u + 1]),
                       LAMBDA n : TypedefLoop(n, chain, u - 1, basetype, rub, ub))
             ELSE Bind(TypedefCompile(st, t, basetype, u = Len(chain), rub, ub),
                       LAMBDA n : TypedefLoop(n, chain, u - 1, basetype, rub, ub))

\* the leaf's type adds nothing to the typedef it names: the temporary type
\* is kept and filled from the base
LeafFromBase_Copy(st) ==
    [st EXCEPT !.heap[st.type] = [st.heap[st.base] EXCEPT !.refcount = 1]]

\* "no specific restriction in leaf's type definition, copy from the base":
\* free(*type); (*type) = base; ++(*type)->refcount;
LeafFromBase(st) ==
    [st EXCEPT !.heap[st.type].freed = TRUE, !.heap[st.base].refcount = @ + 1, !.type = st.base]

\* the part of lys_compile_type after the typedefs: the leaf's own type statement
LeafType(st, type_p, basetype, rub, ub) ==
    IF st.ret # "LY_SUCCESS" THEN st
    ELSE IF type_p.flags # {}
    THEN TypeRestrictions([st EXCEPT !.heap[st.type].basetype = basetype,
                                     !.heap[st.type].refcount = @ + 1],
                          type_p, basetype, rub, ub)
    ELSE IF st.base # 0 THEN LeafFromBase(st)
    ELSE IF basetype = LY_TYPE_ENUM /\ st.heap[st.type].enums = <<>>
    THEN [st EXCEPT !.heap[st.type].freed = TRUE, !.type = 0, !.ret = "LY_EVALID",
                    !.msg = "Missing enum substatement"]
    ELSE st

\* lys_compile_type(ctx, leaf_p, options, &type) for leaf_p->type = type_p,
\* with the typedefs tp and the types heap: [tp, heap, type, base, ret, msg],
\* type being *type on return (0: NULL)
lys_compile_type(tp, heap, type_p, rub, ub) ==
    Bind(TypeChain(tp, heap, type_p.name, <<>>), LAMBDA c :
        IF c.basetype = LY_TYPE_UNKNOWN
        THEN [tp |-> tp, heap |-> heap, type |-> 0, base |-> 0, ret |-> "LY_EVALID",
              msg |-> "Referenced type not found"]
        ELSE IF type_p.flags \ type_substmt_map(c.basetype) # {}
        THEN [tp |-> tp, heap |-> Append(heap, [NewType EXCEPT !.freed = TRUE]), type |-> 0,
              base |-> 0, ret |-> "LY_EVALID", msg |-> "Invalid type restrictions"]
        ELSE Bind(TypedefLoop([tp |-> tp, heap |-> Append(heap, NewType), type |-> Len(heap) + 1,
                               base |-> 0, ret |-> "LY_SUCCESS", msg |-> "none"],
                              c.chain, Len(c.chain), c.basetype, rub, ub),
                  LAMBDA st : LeafType(st, type_p, c.basetype, rub, ub)))

---------------------------------------------------------------------------
(* The typedefs and leaves compiled by the model                           *)

MaxLeaves == 2

TypeStmt(name, range, enums) ==
    [name |-> name,
     flags |-> (IF range # <<>> THEN {LYS_SET_RANGE} ELSE {}) \cup (IF enums # <<>> THEN {LYS_SET_ENUM} ELSE {}),
     range |-> range, enums |-> enums, compiled |-> 0]

Typedef(name, type) == [name |-> name, type |-> type]

Interval(lo, hi) == <<[lo |-> Num(lo), hi |-> Num(hi)]>>

EnumItem(name) == [name |-> name, flags |-> {}, value |-> 0]

\* typedef A on a built-in type, typedef B on A, typedef C on B
TypedefsA ==
    {Typedef("A", TypeStmt("uint8", Interval(0, 100), <<>>)),
     Typedef("A", TypeStmt("uint8", <<>>, <<>>)),
     Typedef("A", TypeStmt("string", <<>>, <<>>)),
     Typedef("A", TypeStmt("enumeration", <<>>, <<EnumItem("one"), EnumItem("two")>>))}

TypedefsB ==
    {Typedef("B", TypeStmt("A", Interval(10, 50), <<>>)),
     Typedef("B", TypeStmt("A", Interval(10, 200), <<>>)),
     Typedef("B", TypeStmt("A", <<>>, <<>>))}

TypedefsC ==
    {Typedef("C", TypeStmt("B", <<>>, <<>>)),
     Typedef("C", TypeStmt("B", Interval(20, 30), <<>>)),
     Typedef("C", TypeStmt("X", <<>>, <<>>))}

TypedefTables == {<<a, b, c>> : a \in TypedefsA, b \in TypedefsB, c \in TypedefsC}

\* the type statements of the leaves: a typedef, a built-in type or a name
\* that is not defined, without and with a range of their own
LeafTypes ==
    {TypeStmt(n, <<>>, <<>>) : n \in {"A", "B", "C", "uint8", "string", "boolean", "enumeration", "X"}}
        \cup {TypeStmt(n, Interval(20, 40), <<>>) : n \in {"B", "uint8"}}

TypeInit ==
    /\ tpdfs \in TypedefTables
    /\ theap = <<>>
    /\ tleaves = <<>>

IdleType == tpdfs = <<>> /\ theap = <<>> /\ tleaves = <<>>

\* lys_compile_node_leaf() reaches lys_compile_type() for one more leaf of the module
TypeCompileLeaf ==
    /\ Len(tleaves) < MaxLeaves
    /\ \E type_p \in LeafTypes : \E rub \in {"LY_SUCCESS", "LY_EVALID"} : \E ub \in SignedOverflow :
          \E r \in {lys_compile_type(tpdfs, theap, type_p, rub, ub)} :
              /\ tpdfs' = r.tp
              /\ theap' = r.heap
              /\ tleaves' = Append(tleaves, [type_p |-> type_p, ret |-> r.ret, msg |-> r.msg,
                                             type |-> r.type])
    /\ UNCHANGED <<featvars, iffvars, rangevars, enumvars, nodevars, modvars>>

---------------------------------------------------------------------------
(* The enumeration and bits types compiled by the model                    *)

MaxItems == 3

ItemNames == <<"one", "two", "three", "four", "five">>

\* an item with the value or position v, an item without one
ItemSet(name, v) == [name |-> name, flags |-> {LYS_SET_VALUE}, value |-> v]
ItemAuto(name) == [name |-> name, flags |-> {}, value |-> 0]

\* the values and positions the items give: small ones and the highest ones
ItemValues == {0, 1, 5, INT32_MAX, UINT32_MAX}

RECURSIVE ItemLists(_)
\* the lists of n items named ItemNames[1..n], each with a value of
\* ItemValues or without a value
ItemLists(n) ==
    IF n = 0 THEN {<<>>}
    ELSE {Append(l, i) : l \in ItemLists(n - 1),
                         i \in {ItemAuto(ItemNames[n])} \cup {ItemSet(ItemNames[n], v) : v \in ItemValues}}

\* the items a derived type may list: names of the base and a new one,
\* without a value or with one of 1, 2
DerivedItems ==
    {ItemAuto(ItemNames[k]) : k \in 1..4} \cup {ItemSet(ItemNames[k], v) : k \in 1..4, v \in {1, 2}}

DerivedLists ==
    {<<i>> : i \in DerivedItems}
        \cup {l \in {<<i, j>> : i \in DerivedItems, j \in DerivedItems} : l[1].name # l[2].name}

\* the types derived from: {one=1, two=2, three=3}, {one, two, three} and
\* {one=5, two, three=2}
BaseLists ==
    {<<ItemSet("one", 1), ItemSet("two", 2), ItemSet("three", 3)>>,
     <<ItemAuto("one"), ItemAuto("two"), ItemAuto("three")>>,
     <<ItemSet("one", 5), ItemAuto("two"), ItemSet("three", 2)>>}

EnumInputs ==
    {[basetype |-> t, base |-> b, derived |-> <<>>] :
        t \in {LY_TYPE_ENUM, LY_TYPE_BITS}, b \in UNION {ItemLists(n) : n \in 1..MaxItems}}
    \cup {[basetype |-> t, base |-> b, derived |-> d] :
        t \in {LY_TYPE_ENUM, LY_TYPE_BITS}, b \in BaseLists, d \in DerivedLists}

NoEnums == [ret |-> "none", msg |-> "none", enums |-> <<>>]

EnumInit ==
    /\ enin \in EnumInputs
    /\ epc = "start"
    /\ ebres = NoEnums
    /\ eres = NoEnums

IdleEnum ==
    /\ enin = [basetype |-> LY_TYPE_ENUM, base |-> <<>>, derived |-> <<>>]
    /\ epc = "idle" /\ ebres = NoEnums /\ eres = NoEnums

\* the items of the type derived from the built-in type are compiled
EnumCompileBase ==
    /\ epc = "start"
    /\ \E ub \in SignedOverflow :
          \E r \in {lys_compile_type_enums(enin.base, enin.basetype, <<>>, ub)} : ebres' = r
    /\ epc' = "base"
    /\ UNCHANGED <<enin, eres, featvars, iffvars, rangevars, typevars, nodevars, modvars>>

\* the items of the type derived from that type are compiled against its items
EnumCompileDerived ==
    /\ epc = "base" /\ ebres.ret = "LY_SUCCESS" /\ enin.derived # <<>>
    /\ \E ub \in SignedOverflow :
          \E r \in {lys_compile_type_enums(enin.derived, enin.basetype, ebres.enums, ub)} : eres' = r
    /\ epc' = "done"
    /\ UNCHANGED <<enin, ebres, featvars, iffvars, rangevars, typevars, nodevars, modvars>>

---------------------------------------------------------------------------
(* Data nodes: lys_compile_node                                            *)
(* A parsed node (lysp_node) is [nodetype, name, flags, exts, child, type] *)
(* and a compiled node (lysc_node) [nodetype, name, flags, child, type].   *)
(* flags is the set of the bits that are set, so that a & b is the         *)
(* intersection, a | b the union and the number compared by > the sum of   *)
(* the bits.  The nodes of the model have no when, if-feature and must     *)
(* statements.  An extension instance is the name of the extension it      *)
(* refers to.                                                              *)

LYS_CONTAINER == "LYS_CONTAINER"
LYS_LEAF == "LYS_LEAF"
LYS_LIST == "LYS_LIST"

LYS_CONFIG_W == 1
LYS_CONFIG_R == 2
LYS_CONFIG_MASK == {LYS_CONFIG_W, LYS_CONFIG_R}
LYS_STATUS_CURR == 8
LYS_STATUS_DEPRC == 16
LYS_STATUS_OBSLT == 32
LYS_STATUS_MASK == {LYS_STATUS_CURR, LYS_STATUS_DEPRC, LYS_STATUS_OBSLT}

LYSC_OPT_FREE_SP == "LYSC_OPT_FREE_SP"

RECURSIVE FlagsValue(_)
\* the number a set of bits is
FlagsValue(bits) ==
    IF bits = {} THEN 0 ELSE LET b == CHOOSE x \in bits : TRUE IN b + FlagsValue(bits \ {b})

\* the parent argument of lys_compile_node for a top-level node
NoParent == [null |-> TRUE, flags |-> {}]

\* what calling the uninitialized node_compile_spec pointer can do: crash,
\* or run some code that returns zero or non-zero
UninitCall == {"abort", "LY_SUCCESS", "LY_EVALID"}

\* lysc_type_free(): the type is freed when its refcount, decremented in 32
\* bits, is zero
lysc_type_free(heap, a) ==
    IF heap[a].refcount - 1 # 0 THEN [heap EXCEPT ![a].refcount = @ - 1]
    ELSE [heap EXCEPT ![a].refcount = 0, ![a].freed = TRUE]

RECURSIVE lysc_node_free(_, _)
\* lysc_node_free(): the types of the leaves of the node are released
lysc_node_free(heap, node) ==
    IF node.nodetype = LYS_LEAF
    THEN IF node.type # 0 THEN lysc_type_free(heap, node.type) ELSE heap
    ELSE IF node.child = <<>> THEN heap
    ELSE lysc_node_free(lysc_node_free(heap, Head(node.child)), [node EXCEPT !.child = Tail(@)])

\* lys_compile_ext(): LY_EVALID unless the extension the instance refers to
\* is among the extension definitions of the module
lys_compile_ext(extensions, ext_p) ==
    IF ext_p \in extensions THEN "LY_SUCCESS" ELSE "LY_EVALID"

RECURSIVE CompileExts(_, _, _)
\* COMPILE_ARRAY_GOTO(ctx, node_p->exts, node->exts, ..., lys_compile_ext, ret, error):
\* the value ret has afterwards
CompileExts(extensions, exts, rc) ==
    IF exts = <<>> \/ (rc # "LY_SUCCESS" /\ rc # "unset") THEN rc
    ELSE CompileExts(extensions, Tail(exts), lys_compile_ext(extensions, Head(exts)))

\* "config not explicitely set, inherit it from parent": no change
NodeConfig_NoInherit(flags, parent) ==
    IF flags \cap LYS_CONFIG_MASK = {} THEN flags \cup {LYS_CONFIG_W} ELSE flags

\* the config part of lys_compile_node: the flags of the node afterwards
NodeConfig(flags, parent) ==
    IF flags \cap LYS_CONFIG_MASK = {}
    THEN IF ~parent.null THEN flags \cup (parent.flags \cap LYS_CONFIG_MASK)
         ELSE flags \cup {LYS_CONFIG_W}
    ELSE flags

\* the status check left out: any explicit status is taken
NodeStatus_NoCheck(flags, parent) ==
    IF flags \cap LYS_STATUS_MASK = {}
    THEN [ok |-> TRUE,
          flags |-> IF ~parent.null /\ parent.flags \cap {LYS_STATUS_DEPRC, LYS_STATUS_OBSLT} # {}
                    THEN flags \cup (parent.flags \cap LYS_STATUS_MASK)
                    ELSE flags \cup {LYS_STATUS_CURR}]
    ELSE [ok |-> TRUE, flags |-> flags]

\* the status part of lys_compile_node: [ok, flags], ok FALSE at goto error
NodeStatus(flags, parent) ==
    IF flags \cap LYS_STATUS_MASK = {}
    THEN [ok |-> TRUE,
          flags |-> IF ~parent.null /\ parent.flags \cap {LYS_STATUS_DEPRC, LYS_STATUS_OBSLT} # {}
                    THEN flags \cup (parent.flags \cap LYS_STATUS_MASK)
                    ELSE flags \cup {LYS_STATUS_CURR}]
    ELSE IF ~parent.null /\ FlagsValue(parent.flags \cap LYS_STATUS_MASK)
                                > FlagsValue(flags \cap LYS_STATUS_MASK)
    THEN [ok |-> FALSE, flags |-> flags]
    ELSE [ok |-> TRUE, flags |-> flags]

\* lys_compile_node_leaf(): cs = [tp, heap, extensions], the typedefs, the
\* types and the extension definitions of the module; [ret, cs, node]
lys_compile_node_leaf(cs, node_p, node, ub) ==
    Bind(lys_compile_type(cs.tp, cs.heap, node_p.type, ub.range, ub.overflow), LAMBDA r :
        [ret |-> r.ret, cs |-> [cs EXCEPT !.tp = r.tp, !.heap = r.heap],
         node |-> [node EXCEPT !.type = r.type]])

\* the insertion with (*children)->prev left as it was
InsertNode_StalePrev(list, nodes) ==
    IF nodes = <<>> THEN list
    ELSE IF list = <<>> THEN <<[nodes[1] EXCEPT !.prev = 1]>>
    ELSE Append([list EXCEPT ![list[1].prev].next = Len(list) + 1],
                [nodes[1] EXCEPT !.prev = list[1].prev])

\* "insert into parent's children" / "top-level element" of lys_compile_node:
\* list holds the nodes linked so far, each at the position that stands for
\* its address, so *children is position 1 and NULL is 0; nodes is the node
\* to link (prev pointing to itself, next NULL), or nothing
InsertNode(list, nodes) ==
    IF nodes = <<>> THEN list
    ELSE IF list = <<>> THEN <<[nodes[1] EXCEPT !.prev = 1]>>
    ELSE Append([list EXCEPT ![list[1].prev].next = Len(list) + 1, ![1].prev = Len(list) + 1],
                [nodes[1] EXCEPT !.prev = list[1].prev])

RECURSIVE lys_compile_node(_, _, _, _)
RECURSIVE ContainerChildren(_, _, _, _)

\* LY_LIST_FOR(cont_p->child, child_p) of lys_compile_node_container():
\* children are the parsed nodes still to compile; each compiled child is
\* linked at the end of node.child; [ret, cs, node]
ContainerChildren(cs, children, node, ub) ==
    IF children = <<>> THEN [ret |-> "LY_SUCCESS", cs |-> cs, node |-> node]
    ELSE Bind(lys_compile_node(cs, Head(children), [null |-> FALSE, flags |-> node.flags], ub),
              LAMBDA r :
                  IF r.ret # "LY_SUCCESS" THEN [ret |-> r.ret, cs |-> r.cs, node |-> node]
                  ELSE ContainerChildren(r.cs, Tail(children),
                                         [node EXCEPT !.child = InsertNode(@, r.nodes)], ub))

\* the call is entered in cs.log, the record of the calls of lys_compile_node:
\* the node, the parent it was called with and what it returned
Logged(r, node_p, parent) ==
    [r EXCEPT !.cs.log = Append(@, [name |-> node_p.name, parent |-> parent, ret |-> r.ret])]

\* lys_compile_node(ctx, node_p, options, parent): [ret, cs, nodes], nodes
\* being what the call links into the children of parent (into the data of
\* the module when there is no parent): the compiled node, or nothing
lys_compile_node(cs, node_p, parent, ub) ==
    LET st == NodeStatus(NodeConfig(node_p.flags, parent), parent)
        node == [nodetype |-> node_p.nodetype, name |-> node_p.name, flags |-> st.flags,
                 child |-> <<>>, type |-> 0, next |-> 0, prev |-> 0]
        extret == CompileExts(cs.extensions, node_p.exts, "unset")
        rc == IF extret = "unset" THEN "LY_EVALID" ELSE extret
    IN  IF ~st.ok THEN Logged([ret |-> "LY_EVALID", cs |-> cs, nodes |-> <<>>], node_p, parent)
        ELSE IF extret \notin {"unset", "LY_SUCCESS"}
        THEN Logged([ret |-> extret, cs |-> cs, nodes |-> <<>>], node_p, parent)
        ELSE Bind(IF node_p.nodetype = LYS_CONTAINER
                  THEN ContainerChildren(cs, node_p.child, node, ub)
                  ELSE IF node_p.nodetype = LYS_LEAF
                  THEN lys_compile_node_leaf(cs, node_p, node, ub)
                  ELSE [ret |-> ub.call, cs |-> cs, node |-> node],
                  LAMBDA r :
                      IF r.ret = "abort"
                      THEN Logged([ret |-> "abort", cs |-> r.cs, nodes |-> <<>>], node_p, parent)
                      ELSE IF r.ret # "LY_SUCCESS"
                      THEN Logged([ret |-> rc,
                                   cs |-> [r.cs EXCEPT !.heap = lysc_node_free(@, r.node)],
                                   nodes |-> <<>>], node_p, parent)
                      ELSE Logged([ret |-> "LY_SUCCESS", cs |-> r.cs, nodes |-> <<r.node>>],
                                  node_p, parent))

RECURSIVE CompileData(_, _, _, _)
\* LY_LIST_FOR(sp->data, node_p) of lys_compile(): [ret, cs, data]
CompileData(cs, nodes_p, data, ub) ==
    IF nodes_p = <<>> THEN [ret |-> "LY_SUCCESS", cs |-> cs, data |-> data]
    ELSE Bind(lys_compile_node(cs, Head(nodes_p), NoParent, ub), LAMBDA r :
             IF r.ret # "LY_SUCCESS" THEN [ret |-> r.ret, cs |-> r.cs, data |-> data]
             ELSE CompileData(r.cs, Tail(nodes_p), InsertNode(data, r.nodes), ub))

---------------------------------------------------------------------------
(* The data trees compiled by the model                                    *)

MaxDepth == 3

NodeNames == <<"n1", "n2", "n3", "n4", "n5">>

PNode(nodetype, name, flags, exts, child, typename) ==
    [nodetype |-> nodetype, name |-> name, flags |-> flags, exts |-> exts, child |-> child,
     type |-> TypeStmt(typename, <<>>, <<>>)]

\* no config or config true / false, with no status or one of the three
NodeFlags ==
    {c \cup s : c \in {{}, {LYS_CONFIG_W}, {LYS_CONFIG_R}},
                s \in {{}, {LYS_STATUS_CURR}, {LYS_STATUS_DEPRC}, {LYS_STATUS_OBSLT}}}

RECURSIVE Chains(_)
\* a leaf (d = 1), a container holding a chain of depth d - 1
Chains(d) ==
    IF d = 1 THEN {PNode(LYS_LEAF, NodeNames[1], f, <<>>, <<>>, "string") : f \in NodeFlags}
    ELSE {PNode(LYS_CONTAINER, NodeNames[d], f, <<>>, <<t>>, "") : f \in NodeFlags, t \in Chains(d - 1)}

\* a container with extension instances, holding a leaf of a known or an
\* unknown type and a leaf or a list; a leaf follows the container
Families ==
    {<<PNode(LYS_CONTAINER, "c", f, e,
             <<PNode(LYS_LEAF, "a", g, <<>>, <<>>, t), PNode(k, "b", {}, <<>>, <<>>, "string")>>, ""),
       PNode(LYS_LEAF, "z", {}, <<>>, <<>>, "boolean")>> :
        f \in NodeFlags, e \in {<<>>, <<"e">>, <<"x">>},
        g \in {{}, {LYS_STATUS_CURR}, {LYS_CONFIG_R}}, t \in {"string", "X"},
        k \in {LYS_LEAF, LYS_LIST}}

\* four top-level nodes, the second a container with or without an extension
\* instance that holds a leaf of a known or an unknown type
Rows ==
    {<<PNode(LYS_LEAF, "p", {}, <<>>, <<>>, "string"),
       PNode(LYS_CONTAINER, "q", {}, e, <<PNode(LYS_LEAF, "a", {}, <<>>, <<>>, t)>>, ""),
       PNode(LYS_LEAF, "r", {}, <<>>, <<>>, "boolean"),
       PNode(LYS_LEAF, "s", {}, <<>>, <<>>, "string")>> :
        e \in {<<>>, <<"e">>}, t \in {"string", "X"}}

TreeInputs == {<<t>> : t \in Chains(MaxDepth)} \cup Families \cup Rows

NoNodes == [ret |-> "none", data |-> <<>>, log |-> <<>>, heap |-> <<>>]

NodeInit == ntree \in TreeInputs /\ npc = "start" /\ nres = NoNodes

IdleNode == ntree = <<>> /\ npc = "idle" /\ nres = NoNodes

\* the data nodes of a module with the extension e and no typedefs are compiled
NodeCompile ==
    /\ npc = "start"
    /\ \E c \in UninitCall : \E rub \in {"LY_SUCCESS", "LY_EVALID"} : \E o \in SignedOverflow :
          \E r \in {CompileData([tp |-> <<>>, heap |-> <<>>, extensions |-> {"e"}, log |-> <<>>],
                                ntree, <<>>, [call |-> c, range |-> rub, overflow |-> o])} :
              nres' = [ret |-> r.ret, data |-> r.data, log |-> r.cs.log, heap |-> r.cs.heap]
    /\ npc' = "done"
    /\ UNCHANGED <<ntree, featvars, iffvars, rangevars, typevars, enumvars, modvars>>

---------------------------------------------------------------------------
(* The module pipeline: lys_parse_mem_ and lys_compile                     *)
(* The context mctx is the list of its struct lys_module,                  *)
(*   [parsed : lysp_module or NULLP, compiled : address in mheap.mods or 0] *)
(* a module is named by its position, which stands for its address. A      *)
(* parsed module is                                                        *)
(*   [null, name, prefix, version, revs, implemented, latest_revision,     *)
(*    imports : Seq([prefix, name, rev, module]), features, identities :   *)
(*    Seq([name, bases]), data, exts, extensions]                          *)
(* and mheap holds what the compiler allocates: the lysc_module objects    *)
(* (mods), the compiled features (feats) and identities (idents) of all of *)
(* them, and the compiled types (types). The field mod of a feature or an  *)
(* identity is the module whose compiled pointer leads to it, 0 once no    *)
(* module's does (its lysc_module was replaced or freed).                  *)

\* mod->parsed == NULL
NULLP == [null |-> TRUE]

\* a struct lys_module after lys_module_free and ly_set_rm
FreedModule == [parsed |-> NULLP, compiled |-> 0]

NullRead == {"abort", "zero", "one"}

\* the modules in ctx->list
Listed(ctx) == {i \in 1..Len(ctx) : ctx[i] # FreedModule}

\* the name and the revision the context looks a module up by: those of the
\* compiled form when there is one, else those of the parsed form
ModName(ctx, heap, i) ==
    IF ctx[i].compiled # 0 THEN heap.mods[ctx[i].compiled].name ELSE ctx[i].parsed.name

ModRevision(ctx, heap, i) ==
    IF ctx[i].compiled # 0 THEN heap.mods[ctx[i].compiled].revision
    ELSE IF ctx[i].parsed.revs = <<>> THEN <<>> ELSE ctx[i].parsed.revs[1]

ModFlag(ctx, heap, i, flag) ==
    IF ctx[i].compiled # 0 THEN heap.mods[ctx[i].compiled][flag] ELSE ctx[i].parsed[flag]

\* the first element of a set of positions, 0 for none
First(hit) == IF hit = {} THEN 0 ELSE CHOOSE i \in hit : \A j \in hit : i <= j

\* ly_ctx_get_module(ctx, name, revision); revision <<>> is NULL
ly_ctx_get_module(ctx, heap, name, revision) ==
    First({i \in Listed(ctx) : ModName(ctx, heap, i) = name /\ ModRevision(ctx, heap, i) = revision})

ly_ctx_get_module_latest(ctx, heap, name) ==
    First({i \in Listed(ctx) :
              ModName(ctx, heap, i) = name /\ ModFlag(ctx, heap, i, "latest_revision") = 1})

ly_ctx_get_module_implemented(ctx, heap, name) ==
    First({i \in Listed(ctx) :
              ModName(ctx, heap, i) = name /\ ModFlag(ctx, heap, i, "implemented") = 1})

\* lysp_load_module(): the module of the context with that name and
\* revision (the latest one when no revision is asked for); there is no
\* search directory or import callback to load a missing module from
lysp_load_module(ctx, heap, name, revision, require_parsed) ==
    LET mod == IF revision # <<>> THEN ly_ctx_get_module(ctx, heap, name, revision)
               ELSE ly_ctx_get_module_latest(ctx, heap, name)
    IN  IF mod = 0 \/ (require_parsed = 1 /\ ctx[mod].parsed = NULLP) THEN 0 ELSE mod

CharCode(ch) == IF ch = "-" THEN 45 ELSE 48 + DigitVal(ch)

RECURSIVE strcmp(_, _)
\* strcmp() of two dates
strcmp(a, b) ==
    IF a = <<>> \/ b = <<>> THEN Len(a) - Len(b)
    ELSE IF Head(a) # Head(b) THEN CharCode(Head(a)) - CharCode(Head(b))
    ELSE strcmp(Tail(a), Tail(b))

\* lysp_sort_revisions(): the newest revision is moved to position 0
lysp_sort_revisions(revs) ==
    IF revs = <<>> THEN revs
    ELSE LET r == CHOOSE i \in 1..Len(revs) : \A j \in 1..Len(revs) : strcmp(revs[i], revs[j]) >= 0
         IN  [revs EXCEPT ![1] = revs[r], ![r] = revs[1]]

\* lys_latest_switch(old, new): [ctx, heap, new, abort]; old->parsed is read
\* in the second branch also when it is NULL (nr is what that read does)
lys_latest_switch(ctx, heap, old, new, nr) ==
    LET p == ctx[old].parsed
        c == ctx[old].compiled
        new1 == IF p # NULLP THEN [new EXCEPT !.latest_revision = p.latest_revision] ELSE new
        ctx1 == IF p # NULLP THEN [ctx EXCEPT ![old].parsed.latest_revision = 0] ELSE ctx
    IN  IF c = 0 THEN [ctx |-> ctx1, heap |-> heap, new |-> new1, abort |-> FALSE]
        ELSE IF p = NULLP /\ nr = "abort"
        THEN [ctx |-> ctx, heap |-> heap, new |-> new, abort |-> TRUE]
        ELSE [ctx |-> ctx1, heap |-> [heap EXCEPT !.mods[c].latest_revision = 0],
              new |-> [new1 EXCEPT !.latest_revision =
                          IF p # NULLP THEN ctx1[old].parsed.latest_revision
                          ELSE IF nr = "one" THEN 1 ELSE 0],
              abort |-> FALSE]

\* "decide the latest revision" of lys_parse_mem_: [ctx, heap, new, abort]
DecideLatest(ctx, heap, sp, nr) ==
    LET latest == ly_ctx_get_module_latest(ctx, heap, sp.name)
        keep == [ctx |-> ctx, heap |-> heap, new |-> sp, abort |-> FALSE]
    IN  IF latest = 0 THEN [keep EXCEPT !.new.latest_revision = 1]
        ELSE IF sp.revs = <<>> THEN keep
        ELSE IF \/ (ctx[latest].parsed # NULLP /\ ctx[latest].parsed.revs = <<>>)
                \/ (ctx[latest].parsed = NULLP /\ heap.mods[ctx[latest].compiled].revision = <<>>)
        THEN lys_latest_switch(ctx, heap, latest, sp, nr)
        ELSE IF strcmp(sp.revs[1], IF ctx[latest].parsed # NULLP THEN ctx[latest].parsed.revs[1]
                                   ELSE heap.mods[ctx[latest].compiled].revision) > 0
        THEN lys_latest_switch(ctx, heap, latest, sp, nr)
        ELSE keep

\* lysc_module_free(): the object and what it holds are freed; nothing that
\* points into it from another module is touched
lysc_module_free(heap, c) ==
    LET obj == heap.mods[c]
        held(list, i) == \E u \in 1..Len(list) : list[u] = i
        Release(h, nodes) == IF nodes = <<>> THEN h ELSE lysc_node_free(h, [nodetype |-> LYS_CONTAINER, child |-> nodes])
    IN  [heap EXCEPT !.mods[c].freed = TRUE,
                     !.feats = [f \in 1..Len(@) |-> IF held(obj.features, f) THEN [@[f] EXCEPT !.mod = 0] ELSE @[f]],
                     !.idents = [f \in 1..Len(@) |-> IF held(obj.identities, f) THEN [@[f] EXCEPT !.mod = 0] ELSE @[f]],
                     !.types = Release(@, obj.data)]

\* "resolve imports" of lys_parse_mem_, from import u on: the parsed module
\* with the imports resolved, ok being FALSE for goto error_ctx
RECURSIVE ResolveImports(_, _, _, _)
ResolveImports(ctx, heap, sp, u) ==
    IF u > Len(sp.imports) THEN [ok |-> TRUE, err |-> "LY_SUCCESS", sp |-> sp]
    ELSE LET imp == sp.imports[u]
             mod == IF imp.module # 0 THEN imp.module
                    ELSE lysp_load_module(ctx, heap, imp.name, imp.rev, 0)
         IN  IF mod = 0 THEN [ok |-> FALSE, err |-> "LY_ENOTFOUND", sp |-> sp]
             ELSE IF \E i \in 1..(u - 1) : sp.imports[i].module = mod
             THEN [ok |-> FALSE, err |-> "LY_EVALID", sp |-> sp]
             ELSE ResolveImports(ctx, heap, [sp EXCEPT !.imports[u].module = mod], u + 1)

\* finish_parsing of lys_parse_mem_ for the module at position mod
FinishParsing(ctx, heap, mod, isnew) ==
    LET r == ResolveImports(ctx, heap, ctx[mod].parsed, 1)
    IN  IF r.ok THEN [mod |-> mod, err |-> "LY_SUCCESS", ctx |-> [ctx EXCEPT ![mod].parsed = r.sp], heap |-> heap]
        ELSE IF isnew
        THEN [mod |-> 0, err |-> r.err, ctx |-> SubSeq(ctx, 1, Len(ctx) - 1), heap |-> heap]
        ELSE [mod |-> 0, err |-> r.err, ctx |-> [ctx EXCEPT ![mod] = FreedModule],
              heap |-> IF ctx[mod].compiled # 0 THEN lysc_module_free(heap, ctx[mod].compiled) ELSE heap]

\* lys_parse_mem_(ctx, data, LYS_IN_YANG, implement, NULL, NULL, NULL), data
\* being the text yang_parse turns into the parsed module yang:
\* [mod, err, ctx, heap], mod = 0 for NULL, err the error that is logged
lys_parse_mem_(ctx, heap, yang, implement, nr) ==
    LET sorted == [yang EXCEPT !.revs = lysp_sort_revisions(@)]
        sp == IF implement = 1 THEN [sorted EXCEPT !.implemented = 1] ELSE sorted
        mod_dup == ly_ctx_get_module(ctx, heap, sp.name, IF sp.revs # <<>> THEN sp.revs[1] ELSE <<>>)
        fail(e) == [mod |-> 0, err |-> e, ctx |-> ctx, heap |-> heap]
    IN  IF implement = 1 /\ ly_ctx_get_module_implemented(ctx, heap, sp.name) # 0 THEN fail("LY_EDENIED")
        ELSE IF mod_dup # 0 /\ ctx[mod_dup].parsed # NULLP THEN fail("LY_EEXIST")
        ELSE IF mod_dup # 0 THEN FinishParsing([ctx EXCEPT ![mod_dup].parsed = sp], heap, mod_dup, FALSE)
        ELSE Bind(DecideLatest(ctx, heap, sp, nr), LAMBDA d :
                 IF d.abort THEN fail("abort")
                 ELSE FinishParsing(Append(d.ctx, [parsed |-> d.new, compiled |-> 0]), d.heap,
                                    Len(ctx) + 1, TRUE))

\* the object calloc gives lys_compile, with the fields copied from sp
NewCompiled(sp) ==
    [name |-> sp.name, revision |-> IF sp.revs = <<>> THEN <<>> ELSE sp.revs[1],
     implemented |-> sp.implemented, latest_revision |-> sp.latest_revision,
     version |-> sp.version, prefix |-> sp.prefix, imports |-> <<>>, features |-> <<>>,
     identities |-> <<>>, data |-> <<>>, freed |-> FALSE]

\* mod->compiled is overwritten: what the previous object holds is no longer
\* reached through the module
Unlink(list, m) == [f \in 1..Len(list) |-> IF list[f].mod = m THEN [list[f] EXCEPT !.mod = 0] ELSE list[f]]

\* what lysc_module_find_prefix and lysc_feature_find read while module m is
\* compiled: prefix, imports and version of the compiled forms, and the
\* parsed features of m
ModTable(ctx, heap, m) ==
    [i \in 1..Len(ctx) |->
        IF ctx[i].compiled = 0 THEN [prefix |-> <<>>, imports |-> <<>>, version |-> 0, features |-> <<>>]
        ELSE LET c == heap.mods[ctx[i].compiled]
             IN  [prefix |-> c.prefix, imports |-> c.imports, version |-> c.version,
                  features |-> IF i = m /\ ctx[i].parsed # NULLP THEN ctx[i].parsed.features ELSE <<>>]]

\* the error label of lys_compile
CompileError(s, m, rc) ==
    [ret |-> rc, ctx |-> [s.ctx EXCEPT ![m].compiled = 0],
     heap |-> lysc_module_free(s.heap, s.ctx[m].compiled)]

RECURSIVE lys_compile(_, _, _, _, _)
RECURSIVE CompileImports(_, _, _, _, _)

\* lys_compile_import(): s = [ret, ctx, heap]; imp->prefix and imp->module
\* are set, then both forms of the imported module are made sure of
lys_compile_import(s, m, imp_p, options, ub) ==
    LET c == s.ctx[m].compiled
        s1 == [s EXCEPT !.heap.mods[c].imports = Append(@, [prefix |-> imp_p.prefix, module |-> imp_p.module])]
        imported == s.ctx[imp_p.module]
    IN  IF imported.parsed = NULLP
        THEN IF lysp_load_module(s1.ctx, s1.heap, s1.heap.mods[imported.compiled].name,
                                 s1.heap.mods[imported.compiled].revision, 1) = 0
             THEN [s1 EXCEPT !.ret = "LY_ENOTFOUND"] ELSE s1
        ELSE IF imported.compiled = 0
        THEN Bind(lys_compile(s1.ctx, s1.heap, imp_p.module, options, ub),
                  LAMBDA r : [ret |-> r.ret, ctx |-> r.ctx, heap |-> r.heap])
        ELSE s1

\* COMPILE_ARRAY_GOTO(&ctx, sp->imports, mod_c->imports, ..., lys_compile_import, ret, error)
CompileImports(s, m, u, options, ub) ==
    IF u > Len(s.ctx[m].parsed.imports) THEN s
    ELSE Bind(lys_compile_import(s, m, s.ctx[m].parsed.imports[u], options, ub),
              LAMBDA r : IF r.ret # "LY_SUCCESS" THEN r ELSE CompileImports(r, m, u + 1, options, ub))

\* COMPILE_ARRAY_GOTO(..., lys_compile_identity, ...): name and flags; the
\* identities of the model carry no if-feature and no extension instance
lys_compile_identity(s, m, idents_p) ==
    LET n == Len(s.heap.idents)
        new == [i \in 1..Len(idents_p) |-> [mod |-> m, name |-> idents_p[i].name, derived |-> <<>>]]
    IN  [s EXCEPT !.heap.idents = @ \o new,
                  !.heap.mods[s.ctx[m].compiled].identities = [i \in 1..Len(idents_p) |-> n + i]]

\* one pass of the inner loop of lys_compile_identities_derived, for base
\* number u of the identity self: d = [ret, heap, dident]. dident is "unset"
\* until the first match assigns it; ub.dident is what the test !dident makes
\* of the unset pointer
DerivedBase(ctx, d, m, self, base, ub) ==
    LET colon == First({k \in 1..Len(base) : base[k] = ":"})
        name == IF colon # 0 THEN Sub(base, colon, Len(base)) ELSE base
        mod == IF colon # 0
               THEN lysc_module_find_prefix(ModTable(ctx, d.heap, m), m, Sub(base, 0, colon - 1))
               ELSE m
        v == First({i \in 1..Len(d.heap.idents) :
                       d.heap.idents[i].mod = mod /\ d.heap.idents[i].name = name})
        d1 == IF v = 0 THEN d
              ELSE [d EXCEPT !.heap.idents[v].derived = Append(@, self), !.dident = "set"]
    IN  IF mod = 0 \/ ctx[mod].compiled = 0 THEN [d EXCEPT !.ret = "LY_EVALID"]
        ELSE IF d1.dident = "unset" /\ ub.dident = "null" THEN [d1 EXCEPT !.ret = "LY_EVALID"]
        ELSE d1

RECURSIVE lys_compile_identities_derived(_, _, _, _, _, _, _)
\* lys_compile_identities_derived(): identity i of idents_p, from its base u on
lys_compile_identities_derived(ctx, d, m, idents_p, i, u, ub) ==
    IF d.ret # "LY_SUCCESS" \/ i > Len(idents_p) THEN d
    ELSE IF u > Len(idents_p[i].bases)
    THEN lys_compile_identities_derived(ctx, d, m, idents_p, i + 1, 1, ub)
    ELSE Bind(DerivedBase(ctx, d, m, d.heap.mods[ctx[m].compiled].identities[i],
                          idents_p[i].bases[u], ub),
              LAMBDA r : lys_compile_identities_derived(ctx, r, m, idents_p, i, u + 1, ub))

\* lys_compile() from the features on; a failure of the identity derivations
\* returns at once (LY_CHECK_RET), every other one goes to the error label
CompileRest(s, m, options, ub) ==
    LET sp == s.ctx[m].parsed
        c == s.ctx[m].compiled
        n == Len(s.heap.feats)
    IN  Bind(CompileFeatures(ModTable(s.ctx, s.heap, m), m, 1, s.heap.feats), LAMBDA f :
        LET s1 == [s EXCEPT !.heap.feats = f.feats,
                            !.heap.mods[c].features = [i \in 1..(Len(f.feats) - n) |-> n + i]]
        IN  IF f.rc # "LY_SUCCESS" THEN CompileError(s1, m, f.rc)
            ELSE Bind(lys_compile_identity(s1, m, sp.identities), LAMBDA s2 :
            Bind(lys_compile_identities_derived(s2.ctx,
                     [ret |-> "LY_SUCCESS", heap |-> s2.heap, dident |-> "unset"],
                     m, sp.identities, 1, 1, ub), LAMBDA d :
            IF d.ret # "LY_SUCCESS" THEN [s2 EXCEPT !.ret = d.ret, !.heap = d.heap]
            ELSE Bind(CompileData([tp |-> <<>>, heap |-> d.heap.types, extensions |-> sp.extensions,
                                   log |-> <<>>], sp.data, <<>>, ub.node), LAMBDA n3 :
            LET s3 == [s2 EXCEPT !.heap = [d.heap EXCEPT !.types = n3.cs.heap, !.mods[c].data = n3.data]]
                rc == CompileExts(sp.extensions, sp.exts, "unset")
            IN  IF n3.ret # "LY_SUCCESS" THEN CompileError(s3, m, n3.ret)
                ELSE IF rc \notin {"unset", "LY_SUCCESS"} THEN CompileError(s3, m, rc)
                ELSE IF LYSC_OPT_FREE_SP \in options
                THEN [s3 EXCEPT !.ret = "LY_SUCCESS", !.ctx[m].parsed = NULLP]
                ELSE [s3 EXCEPT !.ret = "LY_SUCCESS"]))))

\* lys_compile(mod, options): [ret, ctx, heap, alloc], alloc being the
\* lysc_module this call allocated, 0 when it allocated none
lys_compile(ctx, heap, m, options, ub) ==
    LET sp == ctx[m].parsed
        mod_c == Len(heap.mods) + 1
        start == [ret |-> "LY_SUCCESS", ctx |-> [ctx EXCEPT ![m].compiled = mod_c],
                  heap |-> [heap EXCEPT !.mods = Append(@, NewCompiled(sp)),
                                        !.feats = Unlink(@, m), !.idents = Unlink(@, m)]]
    IN  IF sp = NULLP THEN [ret |-> "LY_EINVAL", ctx |-> ctx, heap |-> heap, alloc |-> 0]
        ELSE Bind(CompileImports(start, m, 1, options, ub), LAMBDA s :
                 Bind(IF s.ret # "LY_SUCCESS" THEN CompileError(s, m, s.ret)
                      ELSE CompileRest(s, m, options, ub),
                      LAMBDA r : [ret |-> r.ret, ctx |-> r.ctx, heap |-> r.heap, alloc |-> mod_c]))

---------------------------------------------------------------------------
(* The modules parsed and compiled by the model                            *)

MaxMods == 2
MaxCompiled == 3

Date18 == <<"2", "0", "1", "8", "-", "0", "1", "-", "0", "1">>
Date19 == <<"2", "0", "1", "9", "-", "0", "1", "-", "0", "1">>

Ident(name, bases) == [name |-> <<name>>, bases |-> bases]

ParsedModule(name, prefix, revs, imports, features, identities, data, exts) ==
    [null |-> FALSE, name |-> name, prefix |-> prefix, version |-> LYS_VERSION_1_1, revs |-> revs,
     implemented |-> 0, latest_revision |-> 0, imports |-> imports, features |-> features,
     identities |-> identities, data |-> data, exts |-> exts, extensions |-> {"e"}]

GoodData == <<PNode(LYS_LEAF, "l", {}, <<>>, <<>>, "string")>>

\* a current leaf in a deprecated container
BadData ==
    <<PNode(LYS_LEAF, "k", {}, <<>>, <<>>, "string"),
      PNode(LYS_CONTAINER, "c", {LYS_STATUS_DEPRC}, <<>>,
            <<PNode(LYS_LEAF, "l", {LYS_STATUS_CURR}, <<>>, <<>>, "string")>>, "")>>

\* module a { feature f; identity x; leaf l; } with no, one or two revisions
SourceA(revs) ==
    ParsedModule("a", <<"a">>, revs, <<>>, <<[name |-> <<"f">>, iffeatures |-> <<>>]>>, <<Ident("x", <<>>)>>, GoodData, <<>>)

\* module b { import a { prefix p; } feature ...; identity ...; data; exts }
SourceB(features, identities, data, exts) ==
    ParsedModule("b", <<"b">>, <<>>, <<[prefix |-> <<"p">>, name |-> "a", rev |-> <<>>, module |-> 0]>>,
                 features, identities, data, exts)

PX == <<"p", ":", "x">>

\* feature g { if-feature "p:f"; }, and after it a feature whose if-feature
\* names no feature of a
GoodFeatures == <<[name |-> <<"g">>, iffeatures |-> <<<<"p", ":", "f">>>>]>>
BadFeatures == GoodFeatures \o <<[name |-> <<"h">>, iffeatures |-> <<<<"p", ":", "z">>>>]>>

\* the bases of the identities of b: resolved, the second one unresolved, the
\* first one unresolved, of an unknown prefix, and a second identity with
\* a base its own module lacks or has
IdentitySets ==
    {<<Ident("y", <<PX>>)>>, <<Ident("y", <<PX, <<"p", ":", "n">>>>)>>,
     <<Ident("y", <<<<"p", ":", "n">>>>)>>, <<Ident("y", <<<<"q", ":", "x">>>>)>>,
     <<Ident("y", <<PX>>), Ident("z", <<<<"n">>>>)>>,
     <<Ident("y", <<PX>>), Ident("z", <<<<"y">>, <<"b", ":", "y">>>>)>>}

ModuleSources ==
    {SourceA(r) : r \in {<<>>, <<Date18>>, <<Date18, Date19>>}}
    \cup {SourceB(GoodFeatures, i, GoodData, <<>>) : i \in IdentitySets}
    \cup {SourceB(BadFeatures, <<Ident("y", <<PX>>)>>, GoodData, <<>>),
          SourceB(GoodFeatures, <<Ident("y", <<PX>>)>>, BadData, <<>>),
          SourceB(GoodFeatures, <<Ident("y", <<PX>>)>>, GoodData, <<"e", "u">>)}

\* the module data of the model are leaves and containers of built-in types
\* without restrictions: no call through node_compile_spec, no range
NodeUB == [call |-> "abort", range |-> "LY_EVALID", overflow |-> "abort"]

NoCall == [op |-> "none", mod |-> 0, options |-> {}, before |-> 0, alloc |-> 0, sp |-> NULLP]

ModInit ==
    /\ mctx = <<>>
    /\ mheap = [mods |-> <<>>, feats |-> <<>>, idents |-> <<>>, types |-> <<>>]
    /\ mcall = NoCall
    /\ mret = "none"

\* lys_parse_mem_() of one of the module sources, as an implemented module or not
ModParse ==
    /\ mret # "abort"
    /\ Len(mctx) < MaxMods
    /\ \E source \in ModuleSources : \E implement \in {0, 1} :
          \E r \in {lys_parse_mem_(mctx, mheap, source, implement, nr) : nr \in NullRead} :
              /\ mctx' = r.ctx
              /\ mheap' = r.heap
              /\ mret' = r.err
              /\ mcall' = [NoCall EXCEPT !.op = "parse", !.mod = r.mod]
    /\ UNCHANGED <<featvars, iffvars, rangevars, typevars, enumvars, nodevars>>

\* lys_compile() of a module of the context
ModCompile ==
    /\ mret # "abort"
    /\ Len(mheap.mods) < MaxCompiled
    /\ \E m \in Listed(mctx) : \E options \in {{}, {LYSC_OPT_FREE_SP}} :
          \E r \in {lys_compile(mctx, mheap, m, options, [dident |-> dn, node |-> NodeUB]) :
                        dn \in {"null", "garbage"}} :
              /\ mctx' = r.ctx
              /\ mheap' = r.heap
              /\ mret' = r.ret
              /\ mcall' = [op |-> "compile", mod |-> m, options |-> options,
                           before |-> mctx[m].compiled, alloc |-> r.alloc, sp |-> mctx[m].parsed]
    /\ UNCHANGED <<featvars, iffvars, rangevars, typevars, enumvars, nodevars>>

\* module c imports a as b does
SourceC ==
    [SourceB(GoodFeatures, <<Ident("y", <<PX>>)>>, GoodData, <<>>) EXCEPT !.name = "c", !.prefix = <<"c">>]

RECURSIVE LoadAll(_, _, _)
\* lys_parse_mem() of the sources in turn, into a context without compiled
\* modules: the context afterwards
LoadAll(ctx, heap, sources) ==
    IF sources = <<>> THEN ctx
    ELSE Bind(lys_parse_mem_(ctx, heap, Head(sources), 1, "abort"),
              LAMBDA r : LoadAll(r.ctx, r.heap, Tail(sources)))

EmptyHeap == [mods |-> <<>>, feats |-> <<>>, idents |-> <<>>, types |-> <<>>]

\* a, one of the modules b and c, parsed in this order
LinkContexts ==
    {LoadAll(<<>>, EmptyHeap, <<SourceA(<<>>), b, SourceC>>) : b \in {m \in ModuleSources : m.name = "b"}}

LinkInit ==
    /\ mctx \in LinkContexts
    /\ mheap = EmptyHeap
    /\ mcall = NoCall
    /\ mret = "none"

IdleMod == mctx = <<>> /\ mheap = <<>> /\ mcall = <<>> /\ mret = "none"

---------------------------------------------------------------------------
(* Specification SpecFeat: two compiled modules, A and B (B imports A with *)
(* prefix p), all features disabled; then any sequence of                  *)
(* lys_feature_enable / lys_feature_disable calls.                         *)

\* the if-feature statements each feature may carry, one sequence per choice
PoolB == {<<>>, <<Str(<<"not", " ", "a">>)>>, <<Str(<<"not", " ", "b">>)>>}
PoolC == {<<>>, <<Str(<<"a", " ", "or", " ", "b">>)>>}
PoolF == {<<>>, <<Str(Render(ScenarioTree))>>, <<Str(<<"a">>), Str(<<"not", " ", "b">>)>>,
          <<Str(<<"not", " ", "f">>)>>}
PoolG == {<<>>, <<Str(<<"p:a">>)>>, <<Str(<<"not", " ", "p:f">>)>>}

Feature(n, iffs) == [name |-> <<n>>, iffeatures |-> iffs]

ModuleA(ib, ic, if) ==
    [name |-> "A", prefix |-> <<"p">>, version |-> LYS_VERSION_1_1, imports |-> <<>>,
     features |-> <<Feature("a", <<>>), Feature("b", ib), Feature("c", ic), Feature("f", if)>>]

ModuleB(fg) ==
    [name |-> "B", prefix |-> <<"q">>, version |-> LYS_VERSION_1_1,
     imports |-> <<[prefix |-> <<"p">>, module |-> 1]>>, features |-> fg]

Schemas ==
    {<<ModuleA(ib, ic, if), ModuleB(fg)>> :
        ib \in PoolB, ic \in PoolC, if \in PoolF,
        fg \in {<<>>} \cup {<<Feature("g", ig)>> : ig \in PoolG}}

\* the names a caller passes: the features of the module, "*", and a name
\* that no feature has
ApiNames(mods, m) ==
    {mods[m].features[u].name : u \in 1..Len(mods[m].features)} \cup {<<"*">>, <<"x">>}

FeatInit ==
    /\ parsed \in Schemas
    /\ \E r \in {CompileModules(parsed, 1, <<>>)} :
           /\ r.rc = "LY_SUCCESS"
           /\ feats = r.feats
    /\ enabled = [f \in 1..Len(feats) |-> FALSE]
    /\ call = [op |-> "none", mod |-> 0, name |-> <<>>]
    /\ ret = "none"
    /\ stat = [passes |-> 0, changed |-> <<>>, run |-> 0]

IdleIff == src = Leaf("a") /\ iffpc = "idle" /\ iff = NoIff /\ assign = {} /\ val = 0

IdleFeat ==
    /\ parsed = <<>> /\ feats = <<>> /\ enabled = <<>>
    /\ call = [op |-> "none", mod |-> 0, name |-> <<>>] /\ ret = "none"
    /\ stat = [passes |-> 0, changed |-> <<>>, run |-> 0]

\* lys_feature_enable(module, feature)
FeatureEnable ==
    /\ \E m \in 1..Len(parsed) : \E name \in ApiNames(parsed, m) :
          \E r \in {lys_feature_change(feats, enabled, m, name, 1)} :
            /\ enabled' = r.en
            /\ ret' = r.ret
            /\ call' = [op |-> "enable", mod |-> m, name |-> name]
            /\ stat' = [passes |-> r.passes, changed |-> r.changed, run |-> r.run]
    /\ UNCHANGED <<parsed, feats, iffvars, rangevars, schemavars>>

\* lys_feature_disable(module, feature)
FeatureDisable ==
    /\ \E m \in 1..Len(parsed) : \E name \in ApiNames(parsed, m) :
          \E r \in {lys_feature_change(feats, enabled, m, name, 0)} :
            /\ enabled' = r.en
            /\ ret' = r.ret
            /\ call' = [op |-> "disable", mod |-> m, name |-> name]
            /\ stat' = [passes |-> r.passes, changed |-> r.changed, run |-> r.run]
    /\ UNCHANGED <<parsed, feats, iffvars, rangevars, schemavars>>

FeatNext == FeatureEnable \/ FeatureDisable

IdleSchema == IdleType /\ IdleEnum /\ IdleNode /\ IdleMod

InitFeat == FeatInit /\ IdleIff /\ IdleRange /\ IdleSchema

SpecFeat == InitFeat /\ [][FeatNext]_vars

IffNext == IffCompile \/ IffEvaluate

InitIff == IffInit /\ IdleFeat /\ IdleRange /\ IdleSchema

SpecIff == InitIff /\ [][IffNext]_vars

RangeNext == RangeCompileBase \/ RangeCompileDerived

InitRange == RangeInit /\ IdleFeat /\ IdleIff /\ IdleSchema

SpecRange == InitRange /\ [][RangeNext]_vars

TypeNext == TypeCompileLeaf

InitType == TypeInit /\ IdleFeat /\ IdleIff /\ IdleRange /\ IdleEnum /\ IdleNode /\ IdleMod

SpecType == InitType /\ [][TypeNext]_vars

EnumNext == EnumCompileBase \/ EnumCompileDerived

InitEnum == EnumInit /\ IdleFeat /\ IdleIff /\ IdleRange /\ IdleType /\ IdleNode /\ IdleMod

SpecEnum == InitEnum /\ [][EnumNext]_vars

NodeNext == NodeCompile

InitNode == NodeInit /\ IdleFeat /\ IdleIff /\ IdleRange /\ IdleType /\ IdleEnum /\ IdleMod

SpecNode == InitNode /\ [][NodeNext]_vars

ModNext == ModParse \/ ModCompile

InitMod == ModInit /\ IdleFeat /\ IdleIff /\ IdleRange /\ IdleType /\ IdleEnum /\ IdleNode

SpecMod == InitMod /\ [][ModNext]_vars

LinkNext == ModCompile

InitLink == LinkInit /\ IdleFeat /\ IdleIff /\ IdleRange /\ IdleType /\ IdleEnum /\ IdleNode

SpecLink == InitLink /\ [][LinkNext]_vars

---------------------------------------------------------------------------
(* Properties of the feature runtime (SpecFeat)                            *)

\* the features of module m with that name (at most one)
Named(m, name) == {f \in 1..Len(feats) : feats[f].mod = m /\ feats[f].name = name}

IsAll(c) == c.name = <<"*">>

\* C1: in every reachable state lys_feature_value returns 1 for a feature
\* exactly when its enabled bit is set and every one of its if-feature
\* expressions evaluates true (no enabled feature has a false if-feature).
C1_ValueIffBitAndIffeatures ==
    \A f \in 1..Len(feats) :
        (lys_feature_value(feats, enabled, feats[f].mod, feats[f].name) = 1)
            <=> (enabled[f] /\ IffeaturesHold(feats, enabled, f))

\* a successful enable left one feature with if-features enabled and another
\* one, whose if-feature is false, disabled
C1_Witness ==
    /\ call.op = "enable" /\ ret = "LY_SUCCESS"
    /\ \E f, g \in 1..Len(feats) :
          /\ feats[f].iffeatures # <<>> /\ enabled[f]
          /\ g \in {stat.changed[u] : u \in 1..Len(stat.changed)}
          /\ ~enabled[g] /\ ~IffeaturesHold(feats, enabled, g)

\* C2: when lys_feature_enable(module, "*") returns LY_SUCCESS every feature
\* of the module is enabled afterwards, and when a feature of the module is
\* left not enabled the call returns LY_EDENIED.
C2_EnableAllEnablesAll ==
    (call.op = "enable" /\ IsAll(call) /\ ModFeatures(feats, call.mod) # <<>>) =>
        /\ ret = "LY_SUCCESS" => \A f \in 1..Len(feats) : feats[f].mod = call.mod => enabled[f]
        /\ (\E f \in 1..Len(feats) : feats[f].mod = call.mod /\ ~enabled[f]) => ret = "LY_EDENIED"

\* C3: whenever lys_feature_enable(module, "*") returns LY_EDENIED, the
\* enabled bit of every feature of every module is what it was before the call.
C3_EnableAllDeniedRestores ==
    [][(call'.op = "enable" /\ IsAll(call') /\ ret' = "LY_EDENIED") => enabled' = enabled]_vars

\* enable-all was denied after a second pass, having flipped features, with
\* features of both modules enabled from before
C3_Witness ==
    /\ call.op = "enable" /\ IsAll(call) /\ ret = "LY_EDENIED"
    /\ stat.passes >= 2 /\ stat.changed # <<>>
    /\ \E f, g \in 1..Len(feats) : feats[f].mod # feats[g].mod /\ enabled[f] /\ enabled[g]

\* C4: enabling a single named feature while one of its if-feature
\* expressions evaluates false returns LY_EDENIED and changes no enabled bit.
C4_SingleEnableDenied ==
    [][(/\ call'.op = "enable" /\ ~IsAll(call')
        /\ \E f \in Named(call'.mod, call'.name) : ~IffeaturesHold(feats, enabled, f))
       => (ret' = "LY_EDENIED" /\ enabled' = enabled)]_vars

\* a single enable was denied while other features are enabled
C4_Witness ==
    /\ call.op = "enable" /\ ~IsAll(call) /\ ret = "LY_EDENIED"
    /\ \E f \in Named(call.mod, call.name) : ~enabled[f] /\ ~IffeaturesHold(feats, enabled, f)
    /\ \E g \in 1..Len(feats) : enabled[g]

\* C5: enabling a feature that is already enabled, or disabling one that is
\* already disabled, returns LY_SUCCESS and leaves every enabled bit unchanged.
C5_AlreadySetIsNoOp ==
    [][(/\ ~IsAll(call')
        /\ \E f \in Named(call'.mod, call'.name) :
              \/ call'.op = "enable" /\ enabled[f]
              \/ call'.op = "disable" /\ ~enabled[f])
       => (ret' = "LY_SUCCESS" /\ enabled' = enabled)]_vars

\* a single enable succeeded without changing anything, on a feature that has
\* an enabled dependent
C5_Witness ==
    /\ call.op = "enable" /\ ~IsAll(call) /\ ret = "LY_SUCCESS" /\ stat.changed = <<>>
    /\ \E f \in Named(call.mod, call.name) :
          /\ enabled[f]
          /\ \E u \in 1..Len(feats[f].depfeatures) : enabled[feats[f].depfeatures[u]]

\* feature f of module A carries the if-feature "(a and not b) or c" (features
\* a, b, c, f are 1, 2, 3, 4)
ScenarioSchema ==
    /\ Len(feats) >= 4
    /\ parsed[1].features[4].iffeatures = <<Str(Render(ScenarioTree))>>
    /\ parsed[1].features[2].iffeatures = <<>> /\ parsed[1].features[3].iffeatures = <<>>

\* C6: a call sets the enabled bit only of the feature(s) it names (its
\* module's feature of that name, or all of them for "*"); propagation only
\* clears bits, so an auto-disabled feature stays disabled until it is
\* enabled explicitly.  With f { if-feature "(a and not b) or c" }, a and f
\* enabled: enabling b disables f, and enabling c then leaves f disabled.
C6_NoAutoEnable ==
    [][/\ \A f \in 1..Len(feats) :
             (~enabled[f] /\ enabled'[f]) =>
                 /\ call'.op = "enable" /\ call'.mod = feats[f].mod
                 /\ (call'.name = feats[f].name \/ IsAll(call'))
       /\ (/\ ScenarioSchema /\ enabled[1] /\ enabled[4] /\ ~enabled[2] /\ ~enabled[3]
           /\ call' = [op |-> "enable", mod |-> 1, name |-> <<"b">>])
          => (ret' = "LY_SUCCESS" /\ enabled'[2] /\ ~enabled'[4])
       /\ (/\ ScenarioSchema /\ enabled[1] /\ enabled[2] /\ ~enabled[3] /\ ~enabled[4]
           /\ call' = [op |-> "enable", mod |-> 1, name |-> <<"c">>])
          => (ret' = "LY_SUCCESS" /\ enabled'[3] /\ ~enabled'[4])
      ]_vars

\* the end of the scenario: c was enabled, the if-feature of f holds again and
\* f is still disabled
C6_Witness ==
    /\ ScenarioSchema
    /\ call = [op |-> "enable", mod |-> 1, name |-> <<"c">>] /\ ret = "LY_SUCCESS"
    /\ enabled[1] /\ enabled[2] /\ enabled[3] /\ ~enabled[4]
    /\ IffeaturesHold(feats, enabled, 4)

---------------------------------------------------------------------------
(* Properties of the if-feature compiler (SpecIff)                         *)

\* C7: for every well-formed if-feature expression, evaluating the opcode
\* array that lys_compile_iffeature produces yields, under every assignment
\* of the features, the truth value of the source read with precedence
\* not > and > or; "(a and not b) or c" is encoded as OR AND a NOT b c.
C7_CompiledValueIsSourceValue ==
    /\ iffpc \in {"compiled", "evaluated"} => iff.rc = "LY_SUCCESS"
    /\ iffpc = "evaluated" => ((val = 1) <=> RefValue(src, assign))
    /\ (iffpc = "compiled" /\ src = ScenarioTree) =>
          /\ Opcodes(iff, 6) = <<LYS_IFF_OR, LYS_IFF_AND, LYS_IFF_F, LYS_IFF_NOT, LYS_IFF_F, LYS_IFF_F>>
          /\ iff.features = <<1, 2, 3>>

---------------------------------------------------------------------------
(* Properties of the range compiler (SpecRange)                            *)

\* the derived expression got through the parsing loop, so that the check
\* against the base range decided the result
RangeParsed == rres.msg \in {"none", "not equally or more limiting"}

\* every value of every part lies in some part of base
Contained(parts, base) ==
    \A u \in 1..Len(parts) : \A x \in parts[u].min..parts[u].max :
        \E v \in 1..Len(base) : base[v].min <= x /\ x <= base[v].max

\* some part has, strictly between its bounds, a value of a gap of base (a
\* value that no part of base holds)
StraddlesGap(parts, base) ==
    \E u \in 1..Len(parts) : \E x \in (parts[u].min + 1)..(parts[u].max - 1) :
        \A v \in 1..Len(base) : x < base[v].min \/ base[v].max < x

\* C8: a derived range is accepted by lys_compile_type_range exactly when
\* every derived interval is contained in the union of the parent's
\* intervals and straddles no gap between them; otherwise the compilation
\* fails with the "not equally or more limiting" error, as for base uint8
\* "10..200" and derived "0..100".
C8_AcceptedIffContained ==
    (rpc = "done" /\ rbase # <<>> /\ RangeParsed) =>
        /\ (rres.ret = "LY_SUCCESS") <=>
              (Contained(rres.parts, rbres.range) /\ ~StraddlesGap(rres.parts, rbres.range))
        /\ rres.ret # "LY_SUCCESS" =>
              rres.ret = "LY_EVALID" /\ rres.msg = "not equally or more limiting"

\* some number written in the expression is outside the limits
LiteralOutside(e, lim) ==
    \E k \in 1..Len(e) : \E tok \in {e[k].lo, e[k].hi} :
        tok.t = "num" /\ (tok.v < lim.min \/ tok.v > lim.max)

\* C9: an expression with a literal outside the base type's limits is
\* rejected wherever the literal stands (first value, upper bound after "..",
\* part after "|"); for int8 "-128..127" is accepted and every expression
\* containing -129 or 128 is rejected.
C9_OutOfRangeLiteralRejected ==
    rpc = "done" =>
        /\ LiteralOutside(rexpr, TypeLimits(rtype)) => rres.ret # "LY_SUCCESS"
        /\ (rtype = LY_TYPE_INT8 /\ rexpr = <<[lo |-> Num(INT8_MIN), hi |-> Num(INT8_MAX)]>>)
              => rres.ret = "LY_SUCCESS"

\* C10: with an inherited base range, min is the lowest bound of the base
\* range and max its highest bound; without one they are the limits of the
\* built-in type; "min..20" over base "10..50" compiles to [10,20].
C10_MinMaxFromBaseRange ==
    (rpc = "done" /\ RangeParsed) =>
        /\ rexpr[1].lo.t = "min" =>
              rres.parts[1].min = IF rbase = <<>> THEN TypeLimits(rtype).min
                                  ELSE rbres.range[1].min
        /\ rexpr[Len(rexpr)].hi.t = "max" =>
              rres.parts[Len(rres.parts)].max = IF rbase = <<>> THEN TypeLimits(rtype).max
                                                ELSE rbres.range[Len(rbres.range)].max
        /\ (/\ rtype = LY_TYPE_UINT8 /\ rbase = <<[lo |-> Num(10), hi |-> Num(50)]>>
            /\ rexpr = <<[lo |-> MinTok, hi |-> Num(20)]>>)
              => rres.ret = "LY_SUCCESS" /\ rres.range = <<[min |-> 10, max |-> 20]>>

---------------------------------------------------------------------------
(* Properties of the type compiler (SpecType)                              *)

\* the typedef a type statement names, 0 if it names none
NamedTypedef(type_p) ==
    LET hit == {t \in 1..Len(tpdfs) : tpdfs[t].name = type_p.name}
    IN  IF hit = {} THEN 0 ELSE CHOOSE t \in hit : TRUE

\* the leaves compiled with success that add no restriction to a typedef
SharingLeaves ==
    {l \in 1..Len(tleaves) : /\ tleaves[l].ret = "LY_SUCCESS"
                             /\ tleaves[l].type_p.flags = {}
                             /\ NamedTypedef(tleaves[l].type_p) # 0}

\* the users of the compiled type at address a: the typedefs whose
\* type.compiled it is and the leaves whose type it is
TypeUsers(a) ==
    Cardinality({t \in 1..Len(tpdfs) : tpdfs[t].type.compiled = a})
        + Cardinality({l \in 1..Len(tleaves) : tleaves[l].ret = "LY_SUCCESS" /\ tleaves[l].type = a})

\* the tables with typedef A {uint8 range "0..100"} and typedef B {type A range "10..50"}
ChainScenario ==
    /\ tpdfs[1].type.name = "uint8" /\ tpdfs[1].type.range = Interval(0, 100)
    /\ tpdfs[2].type.name = "A" /\ tpdfs[2].type.range = Interval(10, 50)

\* C11: a leaf whose type statement adds no restriction to a typedef has that
\* typedef's compiled type itself as its type: the same address, live, counted
\* once more in refcount (refcount is the number of typedefs and leaves that
\* use the type) and the only type left allocated by the call; with typedef A
\* {uint8 range "0..100"} and typedef B {type A range "10..50"} a leaf of type
\* B has basetype uint8 and the one interval [10,50]
C11_LeafSharesTypedefType ==
    \A l \in SharingLeaves :
        LET a == tleaves[l].type
        IN  /\ a # 0
            /\ a = tpdfs[NamedTypedef(tleaves[l].type_p)].type.compiled
            /\ ~theap[a].freed
            /\ theap[a].refcount = TypeUsers(a)
            /\ \A b \in 1..Len(theap) :
                   theap[b].freed \/ TypeUsers(b) > 0
                       \/ \E k \in 1..Len(tleaves) : k # l /\ tleaves[k].ret # "LY_SUCCESS"
            /\ (ChainScenario /\ tleaves[l].type_p.name = "B") =>
                   /\ theap[a].basetype = LY_TYPE_UINT8
                   /\ theap[a].range = <<[min |-> 10, max |-> 50]>>

C11_Witness ==
    /\ ChainScenario
    /\ \E l \in SharingLeaves :
           /\ tleaves[l].type_p.name = "B"
           /\ theap[tleaves[l].type].refcount = 2
           /\ theap[tleaves[l].type].range = <<[min |-> 10, max |-> 50]>>

RECURSIVE ChainRoot(_, _)
\* the built-in type at the root of the typedef chain that starts at the
\* type named name (LY_TYPE_UNKNOWN if the chain ends at no built-in type);
\* n bounds the length of the chain
ChainRoot(name, n) ==
    LET hit == {t \in 1..Len(tpdfs) : tpdfs[t].name = name}
    IN  IF BuiltinType(name) # LY_TYPE_UNKNOWN THEN BuiltinType(name)
        ELSE IF hit = {} \/ n = 0 THEN LY_TYPE_UNKNOWN
        ELSE ChainRoot(tpdfs[CHOOSE t \in hit : TRUE].type.name, n - 1)

\* C12: every leaf compiled with success has a type (not NULL) whose basetype
\* is the built-in type at the root of its typedef chain, never
\* LY_TYPE_UNKNOWN; also a leaf naming a built-in type with no restrictions
C12_LeafBasetypeIsChainRoot ==
    \A l \in 1..Len(tleaves) :
        tleaves[l].ret = "LY_SUCCESS" =>
            /\ tleaves[l].type # 0
            /\ theap[tleaves[l].type].basetype # LY_TYPE_UNKNOWN
            /\ theap[tleaves[l].type].basetype = ChainRoot(tleaves[l].type_p.name, Len(tpdfs))

\* the leaf d { type string; } is compiled with success
C12_Witness ==
    \E l \in 1..Len(tleaves) :
        /\ tleaves[l].ret = "LY_SUCCESS"
        /\ tleaves[l].type_p = TypeStmt("string", <<>>, <<>>)

---------------------------------------------------------------------------
(* Properties of the enumeration / bits compiler (SpecEnum)                *)

\* the compiled item named name, in the items enums
ItemNamed(enums, name) == CHOOSE e \in {enums[k] : k \in 1..Len(enums)} : e.name = name

HasItem(enums, name) == \E k \in 1..Len(enums) : enums[k].name = name

\* the derived type has been compiled against the items of its base
DerivedDone == epc = "done"

\* C13: for a type derived from a base that lists items: a derived item the
\* base does not have makes the compilation fail; after a success every item
\* without explicit value has the value the base gives it; an item with an
\* explicit value other than the base's makes it fail.  Base {one=1, two=2,
\* three=3}: derived {one, two} yields 1 and 2, derived {four} fails with
\* "adds new item"
C13_DerivedItemsFromBase ==
    DerivedDone =>
        LET d == enin.derived
            base == ebres.enums
        IN  /\ (\E u \in 1..Len(d) : ~HasItem(base, d[u].name)) => eres.ret # "LY_SUCCESS"
            /\ (\E u \in 1..Len(d) : /\ HasItem(base, d[u].name)
                                     /\ LYS_SET_VALUE \in d[u].flags
                                     /\ d[u].value # ItemNamed(base, d[u].name).value)
                   => eres.ret # "LY_SUCCESS"
            /\ eres.ret = "LY_SUCCESS" =>
                   /\ Len(eres.enums) = Len(d)
                   /\ \A u \in 1..Len(d) :
                          /\ HasItem(eres.enums, d[u].name)
                          /\ ItemNamed(eres.enums, d[u].name).value = ItemNamed(base, d[u].name).value
            /\ enin.base = <<ItemSet("one", 1), ItemSet("two", 2), ItemSet("three", 3)>> =>
                   /\ d = <<ItemAuto("one"), ItemAuto("two")>> =>
                          /\ eres.ret = "LY_SUCCESS"
                          /\ eres.enums = <<[name |-> "one", value |-> 1], [name |-> "two", value |-> 2]>>
                   /\ d = <<ItemAuto("four")>> =>
                          eres.ret = "LY_EVALID" /\ eres.msg = "adds new item"

C13_Witness ==
    /\ DerivedDone
    /\ enin.base = <<ItemSet("one", 1), ItemSet("two", 2), ItemSet("three", 3)>>
    /\ enin.derived = <<ItemAuto("one"), ItemAuto("two")>>
    /\ eres.enums = <<[name |-> "one", value |-> 1], [name |-> "two", value |-> 2]>>

\* a is lower than b: as int32_t for enum values, as uint32_t for bit positions
ItemLower(basetype, a, b) == IF basetype = LY_TYPE_BITS THEN ULess(a, b) ELSE a < b

\* the highest of the values vals (a non-empty sequence)
Highest(basetype, vals) ==
    CHOOSE h \in {vals[k] : k \in 1..Len(vals)} :
        \A k \in 1..Len(vals) : ~ItemLower(basetype, h, vals[k])

RECURSIVE AutoAssigned(_, _, _, _)
\* the values auto-assignment is to give the items u, u + 1, ... after the
\* values vals of the items before them: [ok, vals], ok FALSE when an item
\* without a value follows the highest value there is
AutoAssigned(items, basetype, u, vals) ==
    IF u > Len(items) THEN [ok |-> TRUE, vals |-> vals]
    ELSE IF LYS_SET_VALUE \in items[u].flags
    THEN AutoAssigned(items, basetype, u + 1, Append(vals, items[u].value))
    ELSE IF u = 1 THEN AutoAssigned(items, basetype, u + 1, Append(vals, 0))
    ELSE IF Highest(basetype, vals) = (IF basetype = LY_TYPE_BITS THEN UINT32_MAX ELSE INT32_MAX)
    THEN [ok |-> FALSE, vals |-> vals]
    ELSE AutoAssigned(items, basetype, u + 1, Append(vals, Inc32(Highest(basetype, vals))))

\* the items of the type derived from the built-in type have been compiled
BaseDone == epc \in {"base", "done"}

\* C14: an item without explicit value gets the highest value seen so far in
\* the type plus one (0 for the first item), and the compilation fails
\* whenever such an item comes when the highest value already assigned is
\* INT32_MAX (UINT32_MAX for a bit position), whatever items were listed
\* after that highest one
C14_AutoAssignHighestPlusOne ==
    BaseDone =>
        LET a == AutoAssigned(enin.base, enin.basetype, 1, <<>>)
        IN  /\ ~a.ok => ebres.ret # "LY_SUCCESS"
            /\ ebres.ret = "LY_SUCCESS" =>
                   \A u \in 1..Len(enin.base) :
                       /\ HasItem(ebres.enums, enin.base[u].name)
                       /\ a.ok => ItemNamed(ebres.enums, enin.base[u].name).value = a.vals[u]

\* bits {one position 4294967295; two position 5; three} has been compiled
C14_Witness ==
    /\ BaseDone
    /\ enin.basetype = LY_TYPE_BITS
    /\ enin.base = <<ItemSet("one", UINT32_MAX), ItemSet("two", 5), ItemAuto("three")>>

---------------------------------------------------------------------------
(* Properties of the data node compiler (SpecNode)                         *)

RECURSIVE CompiledNodes(_, _)
\* the compiled nodes in the list nodes and below, each with its ancestors
\* (the compiled nodes above it, outermost first): [name, flags, anc]
CompiledNodes(nodes, anc) ==
    IF nodes = <<>> THEN {}
    ELSE {[name |-> Head(nodes).name, flags |-> Head(nodes).flags, anc |-> anc]}
             \cup CompiledNodes(Head(nodes).child,
                                Append(anc, [name |-> Head(nodes).name, flags |-> Head(nodes).flags]))
             \cup CompiledNodes(Tail(nodes), anc)

RECURSIVE SourceNodes(_)
\* the parsed nodes in the list nodes and below: [name, flags]
SourceNodes(nodes) ==
    IF nodes = <<>> THEN {}
    ELSE {[name |-> Head(nodes).name, flags |-> Head(nodes).flags]}
             \cup SourceNodes(Head(nodes).child) \cup SourceNodes(Tail(nodes))

\* the flags the source gives the node named name
SourceFlags(name) == (CHOOSE n \in SourceNodes(ntree) : n.name = name).flags

NodesDone == npc = "done"

\* C15: every compiled node has exactly one config flag: the one its source
\* sets, else the compiled config flag of its parent, else (top level)
\* read-write; so a node is read-only when it is below a read-only container
\* and neither it nor any node between them sets config
C15_ConfigInherited ==
    NodesDone =>
        \A n \in CompiledNodes(nres.data, <<>>) :
            LET own == SourceFlags(n.name) \cap LYS_CONFIG_MASK
                config == n.flags \cap LYS_CONFIG_MASK
            IN  /\ Cardinality(config) = 1
                /\ config = (IF own # {} THEN own
                             ELSE IF n.anc # <<>> THEN n.anc[Len(n.anc)].flags \cap LYS_CONFIG_MASK
                             ELSE {LYS_CONFIG_W})
                /\ \A k \in 1..Len(n.anc) :
                       (/\ LYS_CONFIG_R \in n.anc[k].flags
                        /\ own = {}
                        /\ \A j \in (k + 1)..Len(n.anc) :
                               SourceFlags(n.anc[j].name) \cap LYS_CONFIG_MASK = {})
                           => config = {LYS_CONFIG_R}

\* a leaf without config is compiled two levels below a config false
\* container, the container between them having no config either
C15_Witness ==
    /\ NodesDone
    /\ \E n \in CompiledNodes(nres.data, <<>>) :
           /\ Len(n.anc) = 2
           /\ SourceFlags(n.anc[1].name) \cap LYS_CONFIG_MASK = {LYS_CONFIG_R}
           /\ SourceFlags(n.anc[2].name) \cap LYS_CONFIG_MASK = {}
           /\ SourceFlags(n.name) \cap LYS_CONFIG_MASK = {}
           /\ n.flags \cap LYS_CONFIG_MASK = {LYS_CONFIG_R}

\* current < deprecated < obsolete: 1, 2, 3 for the status among flags, 0 for none
StatusRank(flags) ==
    IF LYS_STATUS_OBSLT \in flags THEN 3
    ELSE IF LYS_STATUS_DEPRC \in flags THEN 2
    ELSE IF LYS_STATUS_CURR \in flags THEN 1
    ELSE 0

\* C16: in the compiled tree every node has one status, not less advanced
\* than its parent's; a node without explicit status has the parent's
\* deprecated or obsolete status or else current; and every call of
\* lys_compile_node for a node whose explicit status is less advanced than
\* its parent's fails
C16_StatusNotLessThanParent ==
    NodesDone =>
        /\ \A n \in CompiledNodes(nres.data, <<>>) :
               LET own == SourceFlags(n.name) \cap LYS_STATUS_MASK
                   up == IF n.anc = <<>> THEN {} ELSE n.anc[Len(n.anc)].flags
               IN  /\ Cardinality(n.flags \cap LYS_STATUS_MASK) = 1
                   /\ StatusRank(n.flags) >= StatusRank(up)
                   /\ own # {} => n.flags \cap LYS_STATUS_MASK = own
                   /\ own = {} => StatusRank(n.flags) = (IF StatusRank(up) >= 2 THEN StatusRank(up) ELSE 1)
        /\ \A k \in 1..Len(nres.log) :
               LET own == SourceFlags(nres.log[k].name) \cap LYS_STATUS_MASK
               IN  (own # {} /\ ~nres.log[k].parent.null
                        /\ StatusRank(own) < StatusRank(nres.log[k].parent.flags))
                       => nres.log[k].ret # "LY_SUCCESS"

\* container n3 is deprecated, container n2 in it has no status and leaf n1
\* in n2 has status current: n2 was compiled as deprecated and the call for
\* n1 failed
C16_Witness ==
    /\ NodesDone
    /\ SourceFlags("n3") \cap LYS_STATUS_MASK = {LYS_STATUS_DEPRC}
    /\ SourceFlags("n2") \cap LYS_STATUS_MASK = {}
    /\ \E k \in 1..Len(nres.log) :
           /\ nres.log[k].name = "n1"
           /\ SourceFlags("n1") \cap LYS_STATUS_MASK = {LYS_STATUS_CURR}
           /\ LYS_STATUS_DEPRC \in nres.log[k].parent.flags
           /\ nres.log[k].ret = "LY_EVALID"

---------------------------------------------------------------------------
(* Module pipeline properties (SpecMod)                                    *)

\* the last call was lys_compile on a module that had a compiled form
Recompiled == mcall.op = "compile" /\ mcall.before # 0

\* the lysc_module whose features array holds feature g, whose identities
\* array holds identity g
FeatureOwner(g) ==
    CHOOSE c \in 1..Len(mheap.mods) : \E u \in 1..Len(mheap.mods[c].features) : mheap.mods[c].features[u] = g

IdentOwner(g) ==
    CHOOSE c \in 1..Len(mheap.mods) : \E u \in 1..Len(mheap.mods[c].identities) : mheap.mods[c].identities[u] = g

\* two entries of a back-link list stand for the same statement of the same module
Twice(list, names, Owner(_)) ==
    \E u, v \in 1..Len(list) :
        /\ u < v
        /\ names[list[u]].name = names[list[v]].name
        /\ mheap.mods[Owner(list[u])].name = mheap.mods[Owner(list[v])].name

\* a feature or an identity reached through a module lists a dependant twice
DuplicateBacklinks ==
    \/ \E f \in 1..Len(mheap.feats) :
           mheap.feats[f].mod # 0 /\ Twice(mheap.feats[f].depfeatures, mheap.feats, FeatureOwner)
    \/ \E i \in 1..Len(mheap.idents) :
           mheap.idents[i].mod # 0 /\ Twice(mheap.idents[i].derived, mheap.idents, IdentOwner)

\* C17: lys_compile on a module that already has a compiled form is rejected
\* or does nothing: afterwards the module has the compiled form it had, and no
\* depfeatures or derived list of this or an imported module holds an entry twice
C17_RecompileIsNoOp ==
    Recompiled => mctx[mcall.mod].compiled = mcall.before /\ ~DuplicateBacklinks

\* b, which imports a, is compiled a second time with success: b has a new
\* compiled form and feature f of a lists g of b twice
C17_Witness ==
    /\ Recompiled /\ mret = "LY_SUCCESS"
    /\ mcall.sp.name = "b"
    /\ mctx[mcall.mod].compiled # mcall.before
    /\ \E f \in 1..Len(mheap.feats) :
           /\ mheap.feats[f].mod # 0 /\ mheap.feats[f].mod # mcall.mod
           /\ Len(mheap.feats[f].depfeatures) = 2
           /\ Twice(mheap.feats[f].depfeatures, mheap.feats, FeatureOwner)

\* the last call was a lys_compile that allocated a compiled form and failed
CompileFailed == mcall.op = "compile" /\ mcall.alloc # 0 /\ mret # "LY_SUCCESS"

\* C18: when lys_compile returns an error, whichever step failed, the compiled
\* form it was building is freed and mod->compiled is NULL
C18_FailedCompileFreed ==
    CompileFailed => mheap.mods[mcall.alloc].freed /\ mctx[mcall.mod].compiled = 0

\* an identity of b names a base with a prefix b does not import: lys_compile
\* returns LY_EVALID, and b keeps the half-built compiled form, which is not freed
C18_Witness ==
    /\ CompileFailed /\ mret = "LY_EVALID"
    /\ mcall.sp.identities = <<Ident("y", <<<<"q", ":", "x">>>>)>>
    /\ mctx[mcall.mod].compiled = mcall.alloc
    /\ ~mheap.mods[mcall.alloc].freed
    /\ mheap.mods[mcall.alloc].data = <<>>

\* the module carries the latest_revision flag, in its parsed or its compiled form
CarriesLatest(i) ==
    \/ mctx[i].parsed # NULLP /\ mctx[i].parsed.latest_revision = 1
    \/ mctx[i].compiled # 0 /\ mheap.mods[mctx[i].compiled].latest_revision = 1

\* revision a is not newer than revision b, no revision being the oldest
NotNewer(a, b) == a = <<>> \/ (b # <<>> /\ strcmp(a, b) <= 0)

\* no loaded module of the same name has a newer revision
NewestOfName(i) ==
    \A j \in Listed(mctx) :
        ModName(mctx, mheap, j) = ModName(mctx, mheap, i)
            => NotNewer(ModRevision(mctx, mheap, j), ModRevision(mctx, mheap, i))

\* C19: after a successful parse, among the loaded modules of one name the
\* one with the greatest revision date, and only that one, carries the
\* latest_revision flag, whichever forms the previously latest module has
C19_OneLatestPerName ==
    (mcall.op = "parse" /\ mcall.mod # 0)
        => \A i \in Listed(mctx) : CarriesLatest(i) <=> NewestOfName(i)

\* a of revision 2018 has both forms when a of revision 2019 is parsed: after
\* the parse neither of the two carries the flag
C19_Witness ==
    /\ mcall.op = "parse" /\ mcall.mod = 2 /\ Len(mctx) = 2
    /\ mctx[1].parsed # NULLP /\ mctx[1].compiled # 0
    /\ mctx[1].parsed.revs = <<Date18>> /\ mctx[2].parsed.revs = <<Date19, Date18>>
    /\ ~CarriesLatest(1) /\ ~CarriesLatest(2)

\* the names of the identities of module t of the context
IdentityNames(t) ==
    IF mctx[t].parsed # NULLP
    THEN {mctx[t].parsed.identities[k].name : k \in 1..Len(mctx[t].parsed.identities)}
    ELSE {mheap.idents[k].name : k \in {j \in 1..Len(mheap.idents) : mheap.idents[j].mod = t}}

\* base names no identity of the module its prefix resolves to, sp being the
\* module that has the base
UnresolvedBase(sp, base) ==
    LET colon == First({k \in 1..Len(base) : base[k] = ":"})
        name == IF colon # 0 THEN Sub(base, colon, Len(base)) ELSE base
        imp == {u \in 1..Len(sp.imports) : sp.imports[u].prefix = Sub(base, 0, colon - 1)}
    IN  IF colon = 0 \/ Sub(base, 0, colon - 1) = sp.prefix
        THEN name \notin {sp.identities[k].name : k \in 1..Len(sp.identities)}
        ELSE imp # {} /\ name \notin IdentityNames(sp.imports[First(imp)].module)

HasUnresolvedBase(sp) ==
    \E i \in 1..Len(sp.identities) : \E u \in 1..Len(sp.identities[i].bases) :
        UnresolvedBase(sp, sp.identities[i].bases[u])

\* C20: lys_compile fails whenever a base of an identity of the module, the
\* first or a later one of the first or a later identity, names no identity of
\* the module its prefix resolves to
C20_UnresolvedBaseFails ==
    (mcall.op = "compile" /\ mcall.sp # NULLP /\ HasUnresolvedBase(mcall.sp))
        => mret # "LY_SUCCESS"

\* identity y { base p:x; base p:n; } compiles, a having no identity n
C20_Witness ==
    /\ mcall.op = "compile" /\ mret = "LY_SUCCESS"
    /\ mcall.sp # NULLP /\ mcall.sp.identities = <<Ident("y", <<PX, <<"p", ":", "n">>>>)>>
    /\ HasUnresolvedBase(mcall.sp)
    /\ mctx[mcall.mod].compiled = mcall.alloc

---------------------------------------------------------------------------
(* Feature graph properties                                                *)

\* the features the if-feature expressions of feature f of fs refer to
IffRefs(fs, f) ==
    UNION {{fs[f].iffeatures[u].features[v] : v \in 1..Len(fs[f].iffeatures[u].features)} :
              u \in 1..Len(fs[f].iffeatures)}

RECURSIVE IffReach(_, _, _)
\* the features reached from the set now in at most n steps along if-feature references
IffReach(fs, now, n) ==
    IF n = 0 THEN now
    ELSE IffReach(fs, now \cup UNION {IffRefs(fs, g) : g \in now}, n - 1)

\* feature f depends on itself, directly or through other features
OnIffCycle(fs, f) == f \in IffReach(fs, IffRefs(fs, f), Len(fs))

\* C21: no successfully compiled module has a cycle in the graph of features
\* and the features their if-features name, a feature naming itself included:
\* such a module is rejected
C21_NoIffeatureCycle == \A f \in 1..Len(feats) : ~OnIffCycle(feats, f)

\* feature f { if-feature "not f"; } of module A is compiled: its expression
\* points at f itself, and f is in its own depfeatures
C21_Witness ==
    /\ parsed # <<>> /\ parsed[1].features[4].iffeatures = <<Str(<<"not", " ", "f">>)>>
    /\ \E f \in 1..Len(feats) :
           /\ feats[f].name = <<"f">> /\ feats[f].mod = 1
           /\ IffRefs(feats, f) = {f}
           /\ feats[f].depfeatures = <<f>>

\* the lysc_module that holds feature g has been freed
FeatureFreed(g) == mheap.mods[FeatureOwner(g)].freed

\* the last call was a lys_compile that returned LY_SUCCESS
Compiled == mcall.op = "compile" /\ mret = "LY_SUCCESS"

\* the features reached through the modules of the context
LiveFeatures == {f \in 1..Len(mheap.feats) : mheap.feats[f].mod # 0}

\* the entries of a list
Entries(list) == {list[u] : u \in 1..Len(list)}

\* C22: after a successful compile, G is in F.depfeatures exactly when an
\* if-feature expression of G refers to F: every reference has its
\* back-link and every back-link belongs to a feature that refers to F
C22_DepfeaturesIffReferenced ==
    Compiled =>
        \A f \in LiveFeatures :
            /\ \A g \in Entries(mheap.feats[f].depfeatures) :
                   ~FeatureFreed(g) /\ f \in IffRefs(mheap.feats, g)
            /\ \A g \in LiveFeatures :
                   f \in IffRefs(mheap.feats, g) => g \in Entries(mheap.feats[f].depfeatures)

\* the compilation of b failed at its second feature after g of b was linked
\* under f of a; then c is compiled with success: f lists the freed g of b
\* and g of c
C22_Witness ==
    /\ Compiled /\ mcall.sp.name = "c"
    /\ \E f \in LiveFeatures :
           /\ mheap.feats[f].name = <<"f">>
           /\ Len(mheap.feats[f].depfeatures) = 2
           /\ FeatureFreed(mheap.feats[f].depfeatures[1])
           /\ mheap.feats[mheap.feats[f].depfeatures[2]].mod = mcall.mod

\* the lysc_module that holds identity j has been freed
IdentFreed(j) == mheap.mods[IdentOwner(j)].freed

LiveIdents == {i \in 1..Len(mheap.idents) : mheap.idents[i].mod # 0}

\* the identity that base, declared in module m with the parsed form sp,
\* resolves to through the prefix and the imports of sp: 0 for none
BaseTarget(sp, m, base) ==
    LET colon == First({k \in 1..Len(base) : base[k] = ":"})
        name == IF colon # 0 THEN Sub(base, colon, Len(base)) ELSE base
        imp == {u \in 1..Len(sp.imports) : sp.imports[u].prefix = Sub(base, 0, colon - 1)}
        t == IF colon = 0 \/ Sub(base, 0, colon - 1) = sp.prefix THEN m
             ELSE IF imp = {} THEN 0 ELSE sp.imports[First(imp)].module
    IN  First({i \in LiveIdents : mheap.idents[i].mod = t /\ mheap.idents[i].name = name})

\* the identities the declared bases of identity j resolve to; j is identity
\* number k of the module whose compiled form holds it
ResolvedBases(j) ==
    UNION {{BaseTarget(mctx[m].parsed, m, mctx[m].parsed.identities[k].bases[u]) :
               u \in 1..Len(mctx[m].parsed.identities[k].bases)} :
           <<m, k>> \in {<<m, k>> \in (1..Len(mctx)) \X (1..Len(mheap.idents)) :
                           /\ mctx[m].compiled # 0 /\ mctx[m].parsed # NULLP
                           /\ k <= Len(mheap.mods[mctx[m].compiled].identities)
                           /\ mheap.mods[mctx[m].compiled].identities[k] = j}}

\* the parsed form of the module of identity j is at hand
HasSource(j) ==
    \E m \in 1..Len(mctx) : mctx[m].compiled = IdentOwner(j) /\ mctx[m].parsed # NULLP

\* C23: after a successful compile, J is in I.derived exactly when I is one
\* of the bases J declares, within a module and across imports: every entry
\* of a derived list is an identity with that base, and every resolved base
\* has the entry
C23_DerivedIffBase ==
    Compiled =>
        \A i \in LiveIdents :
            /\ \A j \in Entries(mheap.idents[i].derived) :
                   ~IdentFreed(j) /\ (HasSource(j) => i \in ResolvedBases(j))
            /\ \A j \in LiveIdents :
                   (HasSource(j) /\ i \in ResolvedBases(j)) => j \in Entries(mheap.idents[i].derived)

\* the compilation of b failed at its data nodes after y of b was linked
\* under x of a; then c is compiled with success: x lists the freed y of b
\* and y of c
C23_Witness ==
    /\ Compiled /\ mcall.sp.name = "c"
    /\ \E i \in LiveIdents :
           /\ mheap.idents[i].name = <<"x">>
           /\ Len(mheap.idents[i].derived) = 2
           /\ IdentFreed(mheap.idents[i].derived[1])
           /\ mheap.idents[mheap.idents[i].derived[2]].mod = mcall.mod
           /\ i \in ResolvedBases(mheap.idents[i].derived[2])

\* min <= max in every part and every part lies above the part before it
Ascending(parts) ==
    /\ \A u \in 1..Len(parts) : parts[u].min <= parts[u].max
    /\ \A u \in 1..(Len(parts) - 1) : parts[u].max < parts[u + 1].min

\* C24: every range that lys_compile_type_range produces with success has
\* min <= max in each part and parts[i].max < parts[i+1].min; an expression
\* whose values are not strictly ascending is rejected
C24_PartsStrictlyAscending ==
    (rpc = "done" /\ rres.ret = "LY_SUCCESS") => Ascending(rres.range)

\* "4 0", two numbers with neither ".." nor "|" between them, is compiled
\* with success to the parts [4,4] and [0,0]
C24_Witness ==
    /\ rpc = "done" /\ rres.ret = "LY_SUCCESS"
    /\ rtype = LY_TYPE_UINT8 /\ rexpr = <<[lo |-> Num(4), hi |-> Blank(0)]>>
    /\ rres.range = <<[min |-> 4, max |-> 4], [min |-> 0, max |-> 0]>>

\* every leaf compiled so far was compiled with success
AllLeavesCompiled == \A l \in 1..Len(tleaves) : tleaves[l].ret = "LY_SUCCESS"

\* the compiled types that a typedef or a leaf holds
HeldTypes == {a \in 1..Len(theap) : TypeUsers(a) > 0}

\* the leaves compiled with success whose type statement names a built-in
\* type and adds no restriction
PlainBuiltinLeaves ==
    {l \in 1..Len(tleaves) : /\ tleaves[l].ret = "LY_SUCCESS"
                             /\ tleaves[l].type_p.flags = {}
                             /\ BuiltinType(tleaves[l].type_p.name) # LY_TYPE_UNKNOWN}

\* C25: after successful compiles the refcount of every compiled type that is
\* held equals the number of its holders (the typedefs whose type.compiled it
\* is plus the leaves whose type it is), the type is not freed, and so the
\* refcount of the type of every leaf is at least 1
C25_RefcountEqualsHolders ==
    AllLeavesCompiled =>
        /\ \A a \in HeldTypes : ~theap[a].freed /\ theap[a].refcount = TypeUsers(a)
        /\ \A l \in 1..Len(tleaves) : theap[tleaves[l].type].refcount >= 1

\* the leaf d { type string; } is compiled with success: its type is held by
\* the leaf and has refcount 0
C25_Witness ==
    /\ AllLeavesCompiled
    /\ \E l \in PlainBuiltinLeaves :
           /\ tleaves[l].type_p.name = "string"
           /\ TypeUsers(tleaves[l].type) = 1
           /\ theap[tleaves[l].type].refcount = 0

RECURSIVE Walk(_, _, _)
\* the positions met from position i of a sibling list by following next,
\* in at most n steps
Walk(list, i, n) ==
    IF i = 0 \/ n = 0 THEN <<>> ELSE <<i>> \o Walk(list, list[i].next, n - 1)

\* the siblings of a list from its first element on
Siblings(list) == IF list = <<>> THEN <<>> ELSE Walk(list, 1, Len(list) + 1)

\* from the first element next leads through all elements of the list to
\* NULL, the first element's prev is the last element and the prev of every
\* other element is the element before it
WellLinked(list) ==
    LET c == Siblings(list)
    IN  list # <<>> =>
            /\ {c[k] : k \in 1..Len(c)} = 1..Len(list)
            /\ Len(c) = Len(list)
            /\ list[c[Len(c)]].next = 0
            /\ list[1].prev = c[Len(c)]
            /\ \A k \in 1..(Len(c) - 1) : list[c[k]].next = c[k + 1] /\ list[c[k + 1]].prev = c[k]

\* the position of the node called name among the parsed siblings source
SourcePos(source, name) == CHOOSE k \in 1..Len(source) : source[k].name = name

\* the siblings are nodes of source and follow each other as they do there
InSourceOrder(list, source) ==
    LET c == Siblings(list)
    IN  /\ \A k \in 1..Len(c) : \E j \in 1..Len(source) : source[j].name = list[c[k]].name
        /\ \A k \in 1..(Len(c) - 1) :
               SourcePos(source, list[c[k]].name) < SourcePos(source, list[c[k + 1]].name)

RECURSIVE SiblingLists(_, _)
\* the sibling lists of the compiled tree, each with the parsed siblings its
\* nodes were compiled from: the list nodes and the child lists below it
SiblingLists(nodes, source) ==
    {[list |-> nodes, source |-> source]}
        \cup UNION {SiblingLists(nodes[k].child, source[SourcePos(source, nodes[k].name)].child) :
                        k \in {j \in 1..Len(nodes) : nodes[j].nodetype = LYS_CONTAINER}}

\* the call of lys_compile_node for the node called name returned LY_SUCCESS
CompiledWithSuccess(name) ==
    \E k \in 1..Len(nres.log) : nres.log[k].name = name /\ nres.log[k].ret = "LY_SUCCESS"

\* C26: every child list and the top-level list of the compiled tree is well
\* linked (last next NULL, first prev the last element, a.next = b and
\* b.prev = a for consecutive a, b) and in source order, and only nodes whose
\* compilation succeeded are linked: a linked leaf has its type and a linked
\* container all the children of its source
C26_SiblingListsWellLinked ==
    NodesDone =>
        \A sl \in SiblingLists(nres.data, ntree) :
            /\ WellLinked(sl.list)
            /\ InSourceOrder(sl.list, sl.source)
            /\ \A k \in 1..Len(sl.list) :
                   LET n == sl.list[k]
                   IN  /\ CompiledWithSuccess(n.name)
                       /\ n.nodetype = LYS_LEAF => n.type # 0
                       /\ n.nodetype = LYS_CONTAINER =>
                              Len(n.child) = Len(sl.source[SourcePos(sl.source, n.name)].child)

\* of the top-level nodes p, q, r, s the container q holds a leaf of an
\* unknown type and fails: p, r and s are linked in this order, q is not
C26_Witness ==
    /\ NodesDone
    /\ Len(ntree) = 4
    /\ Len(nres.data) = 3
    /\ <<nres.data[1].name, nres.data[2].name, nres.data[3].name>> = <<"p", "r", "s">>
    /\ <<nres.data[1].next, nres.data[2].next, nres.data[3].next>> = <<2, 3, 0>>
    /\ <<nres.data[1].prev, nres.data[2].prev, nres.data[3].prev>> = <<3, 1, 2>>

\* the last call was a lys_compile that returned LY_SUCCESS
CompileSucceeded == mcall.op = "compile" /\ mret = "LY_SUCCESS"

\* the modules the imports of the compiled form of module m point to
ImportedModules(m) ==
    {mheap.mods[mctx[m].compiled].imports[u].module :
         u \in 1..Len(mheap.mods[mctx[m].compiled].imports)}

\* the import of the module compiled by the last call was not yet compiled
\* when the call was made: the call compiled it, its compiled form was
\* allocated after that of the module itself
CompiledByTheCall(i) == mctx[i].compiled > mcall.alloc

\* C27: after lys_compile(M, options) returns LY_SUCCESS every module that M
\* imports has its parsed and its compiled form, whatever the options and
\* whether the import was compiled before or by this call
C27_ImportsParsedAndCompiled ==
    CompileSucceeded =>
        \A i \in ImportedModules(mcall.mod) : mctx[i].parsed # NULLP /\ mctx[i].compiled # 0

\* b is compiled with LYSC_OPT_FREE_SP before the a it imports: the call
\* compiles a with the same options and returns LY_SUCCESS, a has its
\* compiled form, and its parsed form is freed
C27_Witness ==
    /\ CompileSucceeded
    /\ mcall.options = {LYSC_OPT_FREE_SP}
    /\ \E i \in ImportedModules(mcall.mod) :
           /\ CompiledByTheCall(i)
           /\ mctx[i].compiled # 0
           /\ mctx[i].parsed = NULLP

\* the source is "not (not x)" for a feature x
NotParNot == src.k = "not" /\ src.x.k = "par" /\ src.x.x.k = "not" /\ src.x.x.x.k = "f"

\* C28: for an if-feature string that passes the pre-scan the second pass
\* never pops the empty operator stack and never writes an opcode or a
\* feature pointer outside the arrays sized by the pre-scan: no compilation
\* ends in the abort that only these steps can cause
C28_SecondPassInBounds ==
    iffpc # "start" =>
        /\ iff.rc # "abort"
        /\ lys_compile_iffeature(IffCtx, Str(Render(src))).rc # "UB"

\* "not (not c)" passes the pre-scan with expr_size 1 and the second pass
\* writes its second opcode at position -1: the assert of iff_setop aborts
C28_Witness ==
    /\ iffpc = "compiled"
    /\ NotParNot
    /\ PreScan(IffCtx, Str(Render(src))).rc = "ok"
    /\ PreScan(IffCtx, Str(Render(src))).expr_size = 1
    /\ iff.rc = "abort"

\* the features the loop over the changed features appended to the changed
\* set during the last call, in the order they were appended
Propagated ==
    IF ret = "LY_SUCCESS" THEN SubSeq(stat.changed, stat.run + 1, Len(stat.changed)) ELSE <<>>

\* the number of dependent features through which feature f is met when the
\* features of the changed set are gone through
TimesMet(f) ==
    Cardinality({<<u, d>> \in (1..Len(stat.changed)) \X (1..Len(feats)) :
                     /\ d <= Len(feats[stat.changed[u]].depfeatures)
                     /\ feats[stat.changed[u]].depfeatures[d] = f})

\* C29: every call of lys_feature_change returns, for the feature graphs with
\* self-referencing and mutually dependent if-features too; the loop at label
\* run is run at most (number of features of the module + 1) times, and the
\* loop over the dependent features appends a feature to the changed set at
\* most once
C29_FeatureChangeTerminates ==
    call.op # "none" =>
        /\ ret \in {"LY_SUCCESS", "LY_EDENIED", "LY_EINVAL"}
        /\ stat.passes <= Len(ModFeatures(feats, call.mod)) + 1
        /\ \A u, v \in 1..Len(Propagated) : Propagated[u] = Propagated[v] => u = v
        /\ Len(stat.changed) <= 2 * Len(feats)

\* a feature that depends on two features is met twice by the loop over the
\* dependent features of one call and was appended once
C29_Witness ==
    /\ call.op = "disable" /\ ret = "LY_SUCCESS"
    /\ \E u \in 1..Len(Propagated) :
           /\ TimesMet(Propagated[u]) >= 2
           /\ Cardinality({v \in 1..Len(stat.changed) : stat.changed[v] = Propagated[u]}) = 1

\* the last call was a lys_compile that failed and freed the compiled form
\* it was building
FailedAndFreed == CompileFailed /\ mheap.mods[mcall.alloc].freed

\* C30: after lys_compile(M) failed and freed the compiled form it was
\* building, no feature of a surviving compiled module has a feature of a
\* freed form among its depfeatures and no identity of a surviving compiled
\* module has an identity of a freed form in its derived list
C30_NoBacklinkIntoFreedForm ==
    FailedAndFreed =>
        /\ \A f \in LiveFeatures : \A g \in Entries(mheap.feats[f].depfeatures) : ~FeatureFreed(g)
        /\ \A i \in LiveIdents : \A j \in Entries(mheap.idents[i].derived) : ~IdentFreed(j)

\* lys_compile(b) linked g of b under f of a and y of b under x of a, failed
\* at the data nodes of b and freed the compiled form of b: f and x of a
\* still list g and y of the freed form
C30_Witness ==
    /\ FailedAndFreed
    /\ mcall.sp.name = "b"
    /\ \E f \in LiveFeatures : \E g \in Entries(mheap.feats[f].depfeatures) :
           /\ mheap.feats[f].name = <<"f">>
           /\ mheap.mods[FeatureOwner(f)].name = "a"
           /\ FeatureOwner(g) = mcall.alloc
    /\ \E i \in LiveIdents : \E j \in Entries(mheap.idents[i].derived) :
           /\ mheap.idents[i].name = <<"x">>
           /\ mheap.mods[IdentOwner(i)].name = "a"
           /\ IdentOwner(j) = mcall.alloc

=============================================================================
